---- MODULE Spec2Model ----
(***************************************************************************)
(* A model of lading's run orchestrator (lading/src/bin/lading.rs), its    *)
(* shutdown fanout, and the generator send loops (lading/src/generator).   *)
(*                                                                         *)
(* Time is counted in half seconds, so that `Duration / 2` of a whole      *)
(* number of seconds is exact.                                             *)
(***************************************************************************)
EXTENDS Integers, Naturals, Sequences, FiniteSets, TLC

(* ------------------------------ bounds --------------------------------- *)
MaxTasks == 2
MaxShutdownDelay == 2
MaxHandles == 3
MaxBlockSize == 3
ChannelCapacity == 1
MaxBlocks == 2
MaxDuplicates == 2
MaxSeed == 7

VARIABLES
    config,         \* the run configuration and command line options
    mpc,            \* position of main / inner_main
    now,            \* the monotonic clock, in half seconds
    ctrl_c,         \* signal::ctrl_c() has a pending ctrl-c
    tsrv,           \* the target server task: none | running | ok | err | join_err
    tgt_sent,       \* every value sent on the target-start broadcast, in order
    tasks,          \* spawned tasks: id -> [st, cursor, got]
    fired,          \* the shutdown broadcast has fired
    signals,        \* number of calls of shutdown.signal(), saturating at 2
    events,         \* what the orchestrator has done, in order
    winner,         \* the branch of the select! that completed first
    deadline,       \* the instant at which the sleep or wait in progress ends
    phase,          \* experiment_sleep: warmup | sampling | elapsed
    exit_code,      \* the process exit code, -1 while it runs
    handles,        \* Shutdown handles handed out: h -> [st, late]
    kind,           \* the generator: tcp | unix_stream | grpc | file_gen
    pool,           \* the block cache's blocks: position -> total_bytes
    block_cache,    \* the position of the block the cache thread sends next
    rcv,            \* the PeekableReceiver: [chan, buffer, closed]
    gen,            \* the locals of spin and its position
    throttle,       \* the generator's Throttle
    metrics,        \* the counters the generator emits
    fp,             \* the file generator's writer and file bookkeeping
    window,         \* an observation window on the throttle: [open, ticks, charged]
    filegen,        \* a FileGen: the shared file_index and its duplicate children
    payload,        \* two calls of DogStatsD::to_bytes side by side
    cli,            \* the command line and the configuration get_config builds
    expvar          \* the Expvar scraper: its position, its response and the gauges

\* the orchestrator
rvars == <<config, mpc, now, ctrl_c, tsrv, tgt_sent, tasks, events, winner,
           deadline, phase, exit_code>>

\* the shutdown fanout
svars == <<fired, signals>>

\* one generator
gvars == <<kind, pool, block_cache, rcv, gen, throttle, metrics, fp, window,
           filegen, payload, cli, expvar>>

vars == <<rvars, svars, handles, gvars>>

(* ----------------------------- durations ------------------------------- *)
\* Duration::from_secs
from_secs(n) == 2 * n

max_shutdown_delay_undivided == from_secs(config.max_shutdown_delay)

\* main: Duration::from_secs(opts.max_shutdown_delay) / 2
max_shutdown_delay == from_secs(config.max_shutdown_delay) \div 2

\* an entry of the orchestrator's history: what it did, and when
Ev(name) == <<name, now>>

Happened(name) == \E i \in DOMAIN events : events[i][1] = name

\* the instant of the first entry with that name
At(name) == events[CHOOSE i \in DOMAIN events : events[i][1] = name][2]

\* the position of the first entry with that name, 0 when there is none
Pos(name) ==
    IF Happened(name) THEN CHOOSE i \in DOMAIN events : events[i][1] = name ELSE 0

(* ------------------------- shutdown fanout ----------------------------- *)
ShutdownSignalToggles(f) == ~f

\* Shutdown::signal: the first call fires, further calls change nothing
ShutdownSignal(f) == TRUE

\* Shutdown::recv resolves once signal() has been called at least once
ShutdownRecvResolves(f) == f

Inc2(n) == IF n < 2 THEN n + 1 ELSE 2

NoHandles == [h \in 1..MaxHandles |-> [st |-> "none", late |-> FALSE]]

(* --------------------- target-start broadcast -------------------------- *)
\* broadcast::channel(1)
TgtCapacity == 1

\* Sender::subscribe: a new receiver sees only the values sent after it
TgtSubscribe(sent) == Len(sent)

\* Receiver::recv has a value to return: a retained one, or a Lagged error
TgtReady(sent, cursor) == cursor < Len(sent)

\* Receiver::recv: the value at the cursor, or Lagged when it was overwritten
TgtRecv(sent, cursor) ==
    IF Len(sent) - cursor > TgtCapacity THEN "Lagged" ELSE sent[cursor + 1]

(* ------------------------------ tasks ---------------------------------- *)
Kinds == {"generator", "inspector", "blackhole", "target_metrics", "observer"}

\* the tasks that are handed a receiver of the target-start broadcast
Synchronizes(k) == k \in {"generator", "inspector", "observer"}

TaskIds == Kinds \X (1..MaxTasks)

Spawned == {id \in TaskIds : tasks[id].st # "unspawned"}

\* tokio::spawn of a server holding shutdown.clone()
Spawn(id, sub) ==
    tasks' = [tasks EXCEPT ![id] =
                [st |-> IF sub THEN "sync" ELSE "run",
                 cursor |-> IF sub THEN TgtSubscribe(tgt_sent) ELSE 0,
                 got |-> "nothing"]]

NoTask == [st |-> "unspawned", cursor |-> 0, got |-> "nothing"]

(* --------------------------- no generator ------------------------------ *)
NoGen ==
    [pc |-> "idle", result |-> "none", connection |-> FALSE, total_bytes |-> 0,
     blk |-> 0, requested |-> 0, granted |-> "none", sleep_left |-> 0,
     blk_offset |-> 0, blk_max |-> 0, sent |-> 0, attempts |-> 0,
     observed |-> FALSE, flush |-> "none", watched |-> FALSE, emitted |-> <<>>]

NoMetrics ==
    [bytes_written |-> 0, packets_sent |-> 0, request_failure |-> 0,
     connection_failure |-> 0, requests_sent |-> 0, request_ok |-> 0,
     response_bytes |-> 0]

NoFile ==
    [buffered |-> 0, total_bytes_written |-> 0, file_index |-> 0,
     shared_index |-> 0, maximum_bytes_per_file |-> 1, rotate |-> FALSE]

\* no window is being observed
NoWindow == [open |-> FALSE, ticks |-> 0, charged |-> 0]

\* no Expvar scraper
NoExpvar == [pc |-> "none"]

\* to_bytes was not called
NoPayload == [max_bytes |-> 0, seed |-> 0, run |-> <<>>]

\* get_config was not called
NoCli == [pc |-> "none"]

\* a child of FileGen that was not spawned
NoChild == [st |-> "none", file_index |-> 0, total_bytes_written |-> 0]

\* no FileGen was built
\* a child whose spin returned: the future is dropped, and its locals with it
Returned(ch, st) == [ch EXCEPT !.st = st, !.total_bytes_written = 0]

NoFileGen ==
    [file_index |-> 0, duplicates |-> 0, maximum_bytes_per_file |-> 1,
     rotate |-> FALSE, placeholder |-> TRUE, linked |-> {},
     child |-> [c \in 1..MaxDuplicates |-> NoChild],
     spin |-> [pc |-> "none", result |-> -1]]

\* a generator that is not started: its state stays put
GenIdle ==
    /\ kind = "none"
    /\ pool = <<1>>
    /\ block_cache = 1
    /\ rcv = [chan |-> <<>>, buffer |-> 0, closed |-> FALSE]
    /\ gen = NoGen
    /\ throttle = [capacity_per_second |-> 10, max_burst |-> 1,
                   accumulated |-> 0]
    /\ metrics = NoMetrics
    /\ fp = NoFile
    /\ window = NoWindow
    /\ filegen = NoFileGen
    /\ payload = NoPayload
    /\ expvar = NoExpvar
    /\ cli = NoCli

(* ------------------------------- Init ---------------------------------- *)
\* the configurations that spawn at most MaxTasks servers besides the
\* observer; blackhole and target_metrics are configured together or not at
\* all; the shutdown delay is the shortest or the longest one
Configs ==
    {c \in [target : BOOLEAN, generator : 0..MaxTasks, inspector : BOOLEAN,
            disable_inspector : BOOLEAN, blackhole : 0..1, target_metrics : 0..1,
            warmup : 0..1, experiment : 1..1,
            max_shutdown_delay : {1, MaxShutdownDelay}] :
        /\ c.blackhole = c.target_metrics
        /\ (c.disable_inspector => c.inspector)
        /\ c.generator + c.blackhole + c.target_metrics
             + (IF c.inspector /\ ~c.disable_inspector THEN 1 ELSE 0) <= MaxTasks}

InitRun ==
    /\ config \in Configs
    /\ mpc = "generator"
    /\ now = 0
    /\ ctrl_c = FALSE
    /\ tsrv = "none"
    /\ tgt_sent = <<>>
    /\ tasks = [id \in TaskIds |-> NoTask]
    /\ fired = FALSE
    /\ signals = 0
    /\ events = <<>>
    /\ winner = "none"
    /\ deadline = 0
    /\ phase = "warmup"
    /\ exit_code = -1
    /\ handles = NoHandles
    /\ GenIdle

(* ------------------------ inner_main: spawning ------------------------- *)
Count(k) == Cardinality({id \in Spawned : id[1] = k})

\* for cfg in config.generator { subscribe; Server::new; spawn }
SpawnGenerator ==
    /\ mpc = "generator"
    /\ Count("generator") < config.generator
    /\ Spawn(<<"generator", Count("generator") + 1>>, TRUE)
    /\ UNCHANGED <<config, mpc, now, ctrl_c, tsrv, tgt_sent, fired, signals,
                   events, winner, deadline, phase, exit_code>>
    /\ UNCHANGED <<handles, gvars>>

\* if let Some(inspector_conf) = config.inspector { if !disable_inspector {..} }
SpawnInspector ==
    /\ mpc = "generator"
    /\ Count("generator") = config.generator
    /\ IF config.inspector /\ ~config.disable_inspector
         THEN Spawn(<<"inspector", 1>>, TRUE)
         ELSE UNCHANGED tasks
    /\ mpc' = "blackhole"
    /\ UNCHANGED <<config, now, ctrl_c, tsrv, tgt_sent, fired, signals,
                   events, winner, deadline, phase, exit_code>>
    /\ UNCHANGED <<handles, gvars>>

\* if let Some(cfgs) = config.blackhole { for cfg in cfgs { spawn } }
SpawnBlackhole ==
    /\ mpc = "blackhole"
    /\ IF config.blackhole > 0
         THEN Spawn(<<"blackhole", 1>>, FALSE)
         ELSE UNCHANGED tasks
    /\ mpc' = "target_metrics"
    /\ UNCHANGED <<config, now, ctrl_c, tsrv, tgt_sent, fired, signals,
                   events, winner, deadline, phase, exit_code>>
    /\ UNCHANGED <<handles, gvars>>

\* if let Some(cfgs) = config.target_metrics { for cfg in cfgs { spawn } }
SpawnTargetMetrics ==
    /\ mpc = "target_metrics"
    /\ IF config.target_metrics > 0
         THEN Spawn(<<"target_metrics", 1>>, FALSE)
         ELSE UNCHANGED tasks
    /\ mpc' = "target"
    /\ UNCHANGED <<config, now, ctrl_c, tsrv, tgt_sent, fired, signals,
                   events, winner, deadline, phase, exit_code>>
    /\ UNCHANGED <<handles, gvars>>

SpawnTargetWithoutSync ==
    /\ mpc = "target"
    /\ IF config.target
         THEN /\ Spawn(<<"observer", 1>>, TRUE)
              /\ tsrv' = "starting"
         ELSE /\ tsrv' = "none"
              /\ UNCHANGED tasks
    /\ tgt_sent' = tgt_sent
    /\ mpc' = "select"
    /\ phase' = "warmup"
    /\ deadline' = now + from_secs(config.warmup)
    /\ UNCHANGED <<config, now, ctrl_c, fired, signals, events, winner, exit_code>>
    /\ UNCHANGED <<handles, gvars>>

\* let tsrv = if let Some(target) = config.target { observer; target }
\*            else { tgt_snd.send(None).expect(..); pending() };
\* then experiment_sleep is built and the select! is entered
SpawnTarget ==
    /\ mpc = "target"
    /\ IF config.target
         THEN /\ Spawn(<<"observer", 1>>, TRUE)
              /\ tsrv' = "starting"
              /\ tgt_sent' = tgt_sent
         ELSE /\ tgt_sent' = Append(tgt_sent, "None")
              /\ tsrv' = "none"
              /\ UNCHANGED tasks
    /\ mpc' = "select"
    /\ phase' = "warmup"
    /\ deadline' = now + from_secs(config.warmup)
    /\ UNCHANGED <<config, now, ctrl_c, fired, signals, events, winner, exit_code>>
    /\ UNCHANGED <<handles, gvars>>

(* ------------------------- the environment ----------------------------- *)
\* the user presses ctrl-c
CtrlC ==
    /\ mpc = "select"
    /\ ~ctrl_c
    /\ ctrl_c' = TRUE
    /\ UNCHANGED <<config, mpc, now, tsrv, tgt_sent, tasks, fired, signals,
                   events, winner, deadline, phase, exit_code>>
    /\ UNCHANGED <<handles, gvars>>

\* target::Server::run(tgt_snd) publishes the target once it is started
TargetStart ==
    /\ tsrv = "starting"
    /\ exit_code = -1
    /\ tgt_sent' = Append(tgt_sent, "Some")
    /\ tsrv' = "running"
    /\ UNCHANGED <<config, mpc, now, ctrl_c, tasks, fired, signals,
                   events, winner, deadline, phase, exit_code>>
    /\ UNCHANGED <<handles, gvars>>

\* the target server task completes: Ok(Ok(())), Ok(Err(e)) or Err(JoinError)
TargetExit(res) ==
    /\ tsrv \in {"starting", "running"}
    /\ exit_code = -1
    /\ (res = "ok" => tsrv = "running")
    /\ tsrv' = res
    /\ UNCHANGED <<config, mpc, now, ctrl_c, tgt_sent, tasks, fired, signals,
                   events, winner, deadline, phase, exit_code>>
    /\ UNCHANGED <<handles, gvars>>

\* a task waiting for the target to start receives from the broadcast
TaskSync(id) ==
    /\ tasks[id].st = "sync"
    /\ exit_code = -1
    /\ TgtReady(tgt_sent, tasks[id].cursor)
    /\ tasks' = [tasks EXCEPT ![id].st = "run",
                              ![id].got = TgtRecv(tgt_sent, tasks[id].cursor),
                              ![id].cursor = Len(tgt_sent)]
    /\ UNCHANGED <<config, mpc, now, ctrl_c, tsrv, tgt_sent, fired, signals,
                   events, winner, deadline, phase, exit_code>>
    /\ UNCHANGED <<handles, gvars>>

\* a running task observes the shutdown signal, returns and drops its handle
TaskStop(id) ==
    /\ tasks[id].st = "run"
    /\ exit_code = -1
    /\ ShutdownRecvResolves(fired)
    /\ tasks' = [tasks EXCEPT ![id].st = "stopped"]
    /\ UNCHANGED <<config, mpc, now, ctrl_c, tsrv, tgt_sent, fired, signals,
                   events, winner, deadline, phase, exit_code>>
    /\ UNCHANGED <<handles, gvars>>

(* ------------------------- inner_main: select! ------------------------- *)
\* sleep(warmup_duration).await completes; sleep(experiment_duration) starts
WarmupCompleted ==
    /\ mpc = "select"
    /\ phase = "warmup"
    /\ now >= deadline
    /\ phase' = "sampling"
    /\ deadline' = now + from_secs(config.experiment)
    /\ UNCHANGED <<config, mpc, now, ctrl_c, tsrv, tgt_sent, tasks, fired,
                   signals, events, winner, exit_code>>
    /\ UNCHANGED <<handles, gvars>>

\* shutdown.signal().unwrap(), then shutdown.wait(max_shutdown_delay) begins
SignalAndWait(branch) ==
    /\ fired' = ShutdownSignal(fired)
    /\ signals' = Inc2(signals)
    /\ winner' = branch
    /\ events' = events \o <<Ev("signal"), Ev("wait")>>
    /\ mpc' = "wait"
    /\ deadline' = now + max_shutdown_delay
    /\ UNCHANGED exit_code

\* _ = signal::ctrl_c() => { shutdown.signal().unwrap(); }
SelectCtrlC ==
    /\ mpc = "select"
    /\ ctrl_c
    /\ SignalAndWait("ctrl_c")
    /\ UNCHANGED <<config, now, ctrl_c, tsrv, tgt_sent, tasks, phase>>
    /\ UNCHANGED <<handles, gvars>>

\* _ = experiment_sleep => { shutdown.signal().unwrap(); }
SelectExperimentSleep ==
    /\ mpc = "select"
    /\ phase = "sampling"
    /\ now >= deadline
    /\ phase' = "elapsed"
    /\ SignalAndWait("experiment_sleep")
    /\ UNCHANGED <<config, now, ctrl_c, tsrv, tgt_sent, tasks>>
    /\ UNCHANGED <<handles, gvars>>

SelectTsrvJoinErrorExits ==
    /\ mpc = "select"
    /\ tsrv \in {"ok", "err", "join_err"}
    /\ IF tsrv \in {"err", "join_err"}
         THEN /\ exit_code' = 1
              /\ mpc' = "exited"
              /\ winner' = "tsrv"
              /\ events' = Append(events, Ev("exit"))
              /\ UNCHANGED <<fired, signals, deadline>>
         ELSE SignalAndWait("tsrv")
    /\ UNCHANGED <<config, now, ctrl_c, tsrv, tgt_sent, tasks, phase>>
    /\ UNCHANGED <<handles, gvars>>

\* res = tsrv => match res { Ok(Err(e)) => exit(1), Ok(Ok(())) | Err(_) => signal }
SelectTsrv ==
    /\ mpc = "select"
    /\ tsrv \in {"ok", "err", "join_err"}
    /\ IF tsrv = "err"
         THEN /\ exit_code' = 1
              /\ mpc' = "exited"
              /\ winner' = "tsrv"
              /\ events' = Append(events, Ev("exit"))
              /\ UNCHANGED <<fired, signals, deadline>>
         ELSE SignalAndWait("tsrv")
    /\ UNCHANGED <<config, now, ctrl_c, tsrv, tgt_sent, tasks, phase>>
    /\ UNCHANGED <<handles, gvars>>

(* --------------------- drain and runtime shutdown ---------------------- *)
Running == {id \in Spawned : tasks[id].st # "stopped"}

\* Shutdown::wait returns: every handle was dropped, or the delay elapsed
WaitOver == Running = {} \/ now >= deadline

\* runtime.shutdown_timeout returns: no task is left, or the timeout elapsed
ShutdownTimeoutOver ==
    (Running = {} /\ tsrv \notin {"starting", "running"}) \/ now >= deadline

WaitReturnsFullDelay ==
    /\ mpc = "wait"
    /\ WaitOver
    /\ mpc' = "shutdown_timeout"
    /\ events' = Append(events, Ev(IF Running = {} THEN "drained" ELSE "wait_timeout"))
    /\ deadline' = now + from_secs(config.max_shutdown_delay)
    /\ UNCHANGED <<config, now, ctrl_c, tsrv, tgt_sent, tasks, fired, signals,
                   winner, phase, exit_code>>
    /\ UNCHANGED <<handles, gvars>>

\* shutdown.wait(max_shutdown_delay).await returns, inner_main returns and
\* main calls runtime.shutdown_timeout(max_shutdown_delay)
WaitReturns ==
    /\ mpc = "wait"
    /\ WaitOver
    /\ mpc' = "shutdown_timeout"
    /\ events' = Append(events, Ev(IF Running = {} THEN "drained" ELSE "wait_timeout"))
    /\ deadline' = now + max_shutdown_delay
    /\ UNCHANGED <<config, now, ctrl_c, tsrv, tgt_sent, tasks, fired, signals,
                   winner, phase, exit_code>>
    /\ UNCHANGED <<handles, gvars>>

\* runtime.shutdown_timeout returns: the runtime is dropped, main returns
ShutdownTimeoutReturns ==
    /\ mpc = "shutdown_timeout"
    /\ ShutdownTimeoutOver
    /\ mpc' = "done"
    /\ events' = Append(events, Ev("runtime_drop"))
    /\ exit_code' = 0
    /\ UNCHANGED <<config, now, ctrl_c, tsrv, tgt_sent, tasks, fired, signals,
                   winner, deadline, phase>>
    /\ UNCHANGED <<handles, gvars>>

\* a pending timer fires before the clock moves past it
TimerDue ==
    \/ mpc = "select" /\ phase \in {"warmup", "sampling"} /\ now >= deadline
    \/ mpc \in {"wait", "shutdown_timeout"} /\ now >= deadline

\* half a second passes
Tick ==
    /\ mpc \in {"select", "wait", "shutdown_timeout"}
    /\ ~TimerDue
    /\ now' = now + 1
    /\ UNCHANGED <<config, mpc, ctrl_c, tsrv, tgt_sent, tasks, fired, signals,
                   events, winner, deadline, phase, exit_code>>
    /\ UNCHANGED <<handles, gvars>>

NextRun ==
    \/ SpawnGenerator
    \/ SpawnInspector
    \/ SpawnBlackhole
    \/ SpawnTargetMetrics
    \/ SpawnTarget
    \/ CtrlC
    \/ TargetStart
    \/ \E res \in {"ok", "err", "join_err"} : TargetExit(res)
    \/ \E id \in TaskIds : TaskSync(id)
    \/ \E id \in TaskIds : TaskStop(id)
    \/ WarmupCompleted
    \/ SelectCtrlC
    \/ SelectExperimentSleep
    \/ SelectTsrv
    \/ WaitReturns
    \/ ShutdownTimeoutReturns
    \/ Tick

SpecRun == InitRun /\ [][NextRun]_vars

\* the runtime keeps polling inner_main and the clock keeps running; nothing
\* is assumed of the user, the target or the spawned tasks
OrchestratorStep ==
    \/ SpawnGenerator
    \/ SpawnInspector
    \/ SpawnBlackhole
    \/ SpawnTargetMetrics
    \/ SpawnTarget
    \/ WarmupCompleted
    \/ SelectCtrlC
    \/ SelectExperimentSleep
    \/ SelectTsrv
    \/ WaitReturns
    \/ ShutdownTimeoutReturns

FairSpecRun == SpecRun /\ WF_vars(OrchestratorStep) /\ WF_vars(Tick)

(* ------------- inner_main when a generator cannot be built ------------- *)
\* the exit status of a process whose main thread panicked
PanicExitCode == 101

\* generator::Server::new(cfg, shutdown.clone()).unwrap() when Tcp::new
\* returned the block cache's error: main panics, the runtime is dropped with
\* every task spawned so far, and the process ends
ServerNewPanics ==
    /\ mpc = "generator"
    /\ Count("generator") < config.generator
    /\ mpc' = "panicked"
    /\ exit_code' = PanicExitCode
    /\ events' = Append(events, Ev("block_error"))
    /\ tasks' = [id \in TaskIds |->
                   IF id \in Spawned THEN [tasks[id] EXCEPT !.st = "aborted"]
                   ELSE tasks[id]]
    /\ UNCHANGED <<config, now, ctrl_c, tsrv, tgt_sent, fired, signals,
                   winner, deadline, phase>>
    /\ UNCHANGED <<handles, gvars>>

NextRunFaulty == NextRun \/ ServerNewPanics

SpecRunFaulty == InitRun /\ [][NextRunFaulty]_vars

(* ===================== properties of the orchestrator ================== *)
Terminated == mpc \in {"done", "exited"}

\* C1: whichever branch of the select! completes first (ctrl-c, the
\* experiment sleep, the target server with any result), shutdown.signal()
\* has been called once the race is over, before the drain wait begins.
C1_FirstToCompleteSignals ==
    winner # "none" =>
        /\ Happened("signal")
        /\ (Happened("wait") => Pos("signal") < Pos("wait"))

\* C2: every run terminates, and then the exit code is
\* 1 if the target server's error won the race and 0 on every other path.
C2_TerminatesWithExitCode ==
    /\ <>Terminated
    /\ [](Terminated =>
            /\ exit_code \in {0, 1}
            /\ (exit_code = 1 <=> (winner = "tsrv" /\ tsrv = "err")))

C2_Witness == mpc = "done" /\ exit_code = 0 /\ winner = "tsrv" /\ tsrv = "join_err"

\* C3: the process exits with code 1 only after shutdown was signalled and
\* the drain wait has run.
C3_ExitOneAfterDraining ==
    exit_code = 1 =>
        /\ fired
        /\ Happened("wait")
        /\ (Happened("drained") \/ Happened("wait_timeout"))

\* C4: the runtime is force-dropped only after shutdown.signal() and then
\* the drain wait, in that order; the drain wait and the runtime shutdown
\* timeout each last at most half of the configured max_shutdown_delay.
WaitEnd == IF Happened("drained") THEN "drained" ELSE "wait_timeout"

Subscribers == {id \in Spawned : Synchronizes(id[1])}

C5_NoTargetPublishesNone ==
    (~config.target /\ mpc \notin {"generator", "blackhole", "target_metrics", "target"}) =>
        \A id \in Subscribers :
            IF tasks[id].st = "sync"
              THEN /\ TgtReady(tgt_sent, tasks[id].cursor)
                   /\ TgtRecv(tgt_sent, tasks[id].cursor) = "None"
              ELSE tasks[id].got = "None"

C5_Witness ==
    /\ ~config.target
    /\ Cardinality(Subscribers) >= 2
    /\ \A id \in Subscribers : tasks[id].st = "run" /\ tasks[id].got = "None"


(* ====================== the shutdown fanout alone ====================== *)
\* a run that is not started: the orchestrator's state stays put
DefaultConfig ==
    [target |-> FALSE, generator |-> 0, inspector |-> FALSE,
     disable_inspector |-> FALSE, blackhole |-> 0, target_metrics |-> 0,
     warmup |-> 0, experiment |-> 1, max_shutdown_delay |-> 1]

RunIdle ==
    /\ config = DefaultConfig
    /\ mpc = "idle"
    /\ now = 0
    /\ ctrl_c = FALSE
    /\ tsrv = "none"
    /\ tgt_sent = <<>>
    /\ tasks = [id \in TaskIds |-> NoTask]
    /\ events = <<>>
    /\ winner = "none"
    /\ deadline = 0
    /\ phase = "warmup"
    /\ exit_code = -1

InitShutdown ==
    /\ RunIdle
    /\ GenIdle
    /\ fired = FALSE
    /\ signals = 0
    /\ handles = NoHandles

\* Shutdown::subscribe / clone: a fresh handle, before or after the signal
HandleSubscribe(h) ==
    /\ handles[h].st = "none"
    /\ handles' = [handles EXCEPT ![h] = [st |-> "armed", late |-> fired]]
    /\ UNCHANGED <<rvars, svars, gvars>>

\* Handle::recv resolves
HandleRecv(h) ==
    /\ handles[h].st = "armed"
    /\ ShutdownRecvResolves(fired)
    /\ handles' = [handles EXCEPT ![h].st = "resolved"]
    /\ UNCHANGED <<rvars, svars, gvars>>

\* the handle is dropped
HandleDrop(h) ==
    /\ handles[h].st \in {"armed", "resolved"}
    /\ handles' = [handles EXCEPT ![h].st = "dropped"]
    /\ UNCHANGED <<rvars, svars, gvars>>

\* shutdown.signal()
Signal ==
    /\ fired' = ShutdownSignal(fired)
    /\ signals' = Inc2(signals)
    /\ UNCHANGED <<rvars, handles, gvars>>

NextShutdown ==
    \/ \E h \in 1..MaxHandles : HandleSubscribe(h)
    \/ \E h \in 1..MaxHandles : HandleRecv(h)
    \/ \E h \in 1..MaxHandles : HandleDrop(h)
    \/ Signal

SpecShutdown == InitShutdown /\ [][NextShutdown]_vars

\* C8: once signal() has been called, recv() of every handle that is waiting
\* resolves, whether the handle was created before or after the signal; a
\* further signal() changes neither the fanout nor any handle.
C8_SignalResolvesEveryRecv ==
    /\ [](signals >= 1 =>
            \A h \in 1..MaxHandles :
                handles[h].st = "armed" => ENABLED HandleRecv(h))
    /\ [][(signals >= 1 /\ signals' # signals) =>
            (fired' = fired /\ handles' = handles)]_vars

C8_Witness ==
    /\ signals = 2
    /\ \E h \in 1..MaxHandles : handles[h].st = "resolved" /\ handles[h].late
    /\ \E h \in 1..MaxHandles : handles[h].st = "resolved" /\ ~handles[h].late

(* ============================ one generator =========================== *)
\* In this part one tick of time is 100 milliseconds.
Ticks(ms) == ms \div 100

Min(a, b) == IF a < b THEN a ELSE b

\* a counter is kept exact up to what MaxBlocks whole blocks amount to
MaxMetric == MaxBlocks * MaxBlockSize

Sat(n) == Min(n, MaxMetric)

(* ------------------------------ Throttle ------------------------------- *)
RefillUncapped(th) ==
    th.accumulated + th.capacity_per_second \div Ticks(1000)

\* the tokens in the bucket once one more tick of time is credited to it
Refill(th) ==
    Min(th.max_burst, th.accumulated + th.capacity_per_second \div Ticks(1000))

\* wait_for(n) fails with RequestExceedsBurst
WaitForFails(th, n) == n > th.max_burst

\* wait_for(n) completes: with the error, or with n tokens in the bucket
WaitForReady(th, n) == WaitForFails(th, n) \/ th.accumulated >= n

\* the throttle after wait_for(n) completed: n tokens are deducted on success
WaitForDone(th, n) ==
    IF WaitForFails(th, n)
      THEN th
      ELSE [th EXCEPT !.accumulated = @ - n]

(* -------------------------- PeekableReceiver --------------------------- *)
\* peek().await resolves: a block is at hand, or the channel is closed
PeekReady(r) == r.buffer # 0 \/ r.chan # <<>> \/ r.closed

\* the block peek() and next() return, 0 for None
PeekResult(r) ==
    IF r.buffer # 0 THEN r.buffer
    ELSE IF r.chan # <<>> THEN Head(r.chan) ELSE 0

\* peek() keeps the head block in the receiver's buffer
AfterPeek(r) ==
    IF r.buffer = 0 /\ r.chan # <<>>
      THEN [r EXCEPT !.buffer = Head(r.chan), !.chan = Tail(r.chan)]
      ELSE r

\* next() hands out the buffered block, or else the head of the channel
AfterNext(r) ==
    IF r.buffer # 0 THEN [r EXCEPT !.buffer = 0]
    ELSE IF r.chan # <<>> THEN [r EXCEPT !.chan = Tail(r.chan)] ELSE r

(* ------------------------------- Init ---------------------------------- *)
\* the throttle's burst is one byte short of the largest block
MaxBurst == MaxBlockSize - 1

GeneratorKinds == {"tcp", "unix_stream", "grpc", "file_gen"}

\* a generator of one of the kinds K begins spin; watched, the bytes it puts
\* on a stream are recorded
InitGenOf(K, watched) ==
    /\ RunIdle
    /\ fired = FALSE
    /\ signals = 0
    /\ handles = NoHandles
    /\ kind \in K
    /\ pool \in [1..2 -> 1..MaxBlockSize]
    /\ block_cache = 1
    /\ rcv = [chan |-> <<>>, buffer |-> 0, closed |-> FALSE]
    /\ gen = [NoGen EXCEPT !.pc = CASE kind = "grpc" -> "grpc_connect"
                                    [] kind = "file_gen" -> "file_open"
                                    [] OTHER -> "peek",
                            !.watched = watched]
    /\ throttle = [capacity_per_second |-> 10, max_burst |-> MaxBurst,
                   accumulated |-> 0]
    /\ metrics = NoMetrics
    /\ window = NoWindow
    /\ filegen = NoFileGen
    /\ payload = NoPayload
    /\ expvar = NoExpvar
    /\ cli = NoCli
    /\ \E m \in 1..MaxBlockSize, r \in BOOLEAN :
         fp = [NoFile EXCEPT !.maximum_bytes_per_file = IF kind = "file_gen" THEN m ELSE 1,
                             !.rotate = kind = "file_gen" /\ r]

InitGen == InitGenOf(GeneratorKinds, FALSE)

\* what no step of a generator touches
GenFrame == UNCHANGED <<rvars, handles, kind, pool, window, filegen, payload, cli,
                        expvar>>

Stopped == gen.pc \in {"returned", "panicked"}

(* ------------------- the cache thread and the clock -------------------- *)
\* the cache thread runs from thread::Builder::new().spawn(..) until the
\* receiver is dropped
CacheRunning == gen.pc \notin {"idle", "grpc_connect", "grpc_sleep", "file_open"} /\ ~Stopped

\* block_cache.spin(snd): the next block of the pool enters the channel
CacheSend ==
    /\ CacheRunning
    /\ ~rcv.closed
    /\ Len(rcv.chan) < ChannelCapacity
    /\ rcv' = [rcv EXCEPT !.chan = Append(rcv.chan, block_cache)]
    /\ block_cache' = (block_cache % Len(pool)) + 1
    /\ UNCHANGED <<gen, throttle, metrics, fp, svars>>
    /\ GenFrame

\* block_cache.spin(snd) ends on a serialisation error: the channel closes
CacheFails ==
    /\ CacheRunning
    /\ ~rcv.closed
    /\ rcv' = [rcv EXCEPT !.closed = TRUE]
    /\ UNCHANGED <<block_cache, gen, throttle, metrics, fp, svars>>
    /\ GenFrame

\* 100 ms pass
GenTick ==
    /\ ~Stopped
    /\ throttle' = [throttle EXCEPT !.accumulated = Refill(throttle)]
    /\ gen' = [gen EXCEPT !.sleep_left = IF @ > 0 THEN @ - 1 ELSE 0]
    /\ UNCHANGED <<block_cache, rcv, metrics, fp, svars>>
    /\ GenFrame

\* the orchestrator calls shutdown.signal()
GenSignal ==
    /\ ~fired
    /\ fired' = ShutdownSignal(fired)
    /\ signals' = Inc2(signals)
    /\ UNCHANGED <<block_cache, rcv, gen, throttle, metrics, fp>>
    /\ GenFrame

(* ---------------------- steps shared by the loops ---------------------- *)
\* the end of one turn of the loop: its locals go out of scope
LoopAgain(g) ==
    [g EXCEPT !.pc = "peek", !.total_bytes = 0, !.blk = 0, !.requested = 0,
              !.granted = "none", !.blk_offset = 0, !.blk_max = 0,
              !.emitted = <<>>]

PeekFirstBlock(k) ==
    /\ kind = k
    /\ gen.pc = "peek"
    /\ PeekReady(rcv)
    /\ IF PeekResult(rcv) = 0
         THEN gen' = [gen EXCEPT !.pc = "panicked"]
         ELSE gen' = [gen EXCEPT !.pc = "select", !.total_bytes = pool[1]]
    /\ rcv' = AfterPeek(rcv)
    /\ UNCHANGED <<block_cache, throttle, metrics, fp, svars>>
    /\ GenFrame

\* let blk = rcv.peek().await.unwrap(); let total_bytes = blk.total_bytes;
Peek(k) ==
    /\ kind = k
    /\ gen.pc = "peek"
    /\ PeekReady(rcv)
    /\ IF PeekResult(rcv) = 0
         THEN gen' = [gen EXCEPT !.pc = "panicked"]
         ELSE gen' = [gen EXCEPT !.pc = "select", !.total_bytes = pool[PeekResult(rcv)]]
    /\ rcv' = AfterPeek(rcv)
    /\ UNCHANGED <<block_cache, throttle, metrics, fp, svars>>
    /\ GenFrame

\* _ = self.throttle.wait_for(total_bytes) => { .. rcv.next().await.unwrap() ..
\* the branch runs whatever wait_for returned
Throttled(k, pc) ==
    /\ kind = k
    /\ gen.pc = "select"
    /\ gen.sent < MaxBlocks
    /\ WaitForReady(throttle, gen.total_bytes)
    /\ throttle' = WaitForDone(throttle, gen.total_bytes)
    /\ rcv' = AfterNext(rcv)
    /\ gen' = [gen EXCEPT !.pc = IF PeekResult(rcv) = 0 THEN "panicked" ELSE pc,
                          !.requested = gen.total_bytes,
                          !.granted = IF WaitForFails(throttle, gen.total_bytes)
                                        THEN "Err" ELSE "Ok",
                          !.blk = PeekResult(rcv),
                          !.blk_max = gen.total_bytes,
                          !.blk_offset = 0,
                          !.sent = @ + 1]

ShutdownObservedAfterNext(k) ==
    /\ kind = k
    /\ gen.pc = "select"
    /\ ShutdownRecvResolves(fired)
    /\ gen' = [gen EXCEPT !.pc = "returned", !.result = "Ok", !.observed = TRUE]
    /\ rcv' = AfterNext(rcv)
    /\ UNCHANGED <<block_cache, throttle, metrics, fp, svars>>
    /\ GenFrame

\* _ = self.shutdown.recv() => { return Ok(()) }
ShutdownObserved(k) ==
    /\ kind = k
    /\ gen.pc = "select"
    /\ ShutdownRecvResolves(fired)
    /\ gen' = [gen EXCEPT !.pc = "returned", !.result = "Ok", !.observed = TRUE]
    /\ UNCHANGED <<block_cache, rcv, throttle, metrics, fp, svars>>
    /\ GenFrame

(* -------------------------------- TCP ---------------------------------- *)
TcpPeek == Peek("tcp")

\* conn = TcpStream::connect(self.addr), if connection.is_none() => ..
TcpConnect(ok) ==
    /\ kind = "tcp"
    /\ gen.pc = "select"
    /\ ~gen.connection
    /\ gen.attempts < MaxBlocks
    /\ IF ok
         THEN /\ gen' = LoopAgain([gen EXCEPT !.connection = TRUE,
                                              !.attempts = @ + 1])
              /\ UNCHANGED metrics
         ELSE /\ gen' = [gen EXCEPT !.pc = "tcp_sleep", !.sleep_left = Ticks(1000),
                                    !.attempts = @ + 1]
              /\ metrics' = [metrics EXCEPT !.connection_failure = Sat(@ + 1)]
    /\ UNCHANGED <<block_cache, rcv, throttle, fp, svars>>
    /\ GenFrame

\* tokio::time::sleep(Duration::from_secs(1)).await is over
TcpSleepDone ==
    /\ kind = "tcp"
    /\ gen.pc = "tcp_sleep"
    /\ gen.sleep_left = 0
    /\ gen' = LoopAgain(gen)
    /\ UNCHANGED <<block_cache, rcv, throttle, metrics, fp, svars>>
    /\ GenFrame

TcpThrottleUnguarded ==
    /\ Throttled("tcp", "tcp_write")
    /\ UNCHANGED <<block_cache, metrics, fp, svars>>
    /\ GenFrame

\* _ = self.throttle.wait_for(total_bytes), if connection.is_some() => ..
TcpThrottle ==
    /\ gen.connection
    /\ Throttled("tcp", "tcp_write")
    /\ UNCHANGED <<block_cache, metrics, fp, svars>>
    /\ GenFrame

TcpWriteKeepsConnection(ok) ==
    /\ kind = "tcp"
    /\ gen.pc = "tcp_write"
    /\ IF ok
         THEN /\ metrics' = [metrics EXCEPT
                               !.bytes_written = Sat(@ + pool[gen.blk]),
                               !.packets_sent = Sat(@ + 1)]
              /\ gen' = LoopAgain([gen EXCEPT !.connection = TRUE])
         ELSE /\ metrics' = [metrics EXCEPT !.request_failure = Sat(@ + 1)]
              /\ gen' = LoopAgain([gen EXCEPT !.connection = TRUE])
    /\ UNCHANGED <<block_cache, rcv, throttle, fp, svars>>
    /\ GenFrame

\* match client.write_all(&blk.bytes).await { Ok(()) => .., Err(err) => .. }
TcpWrite(ok) ==
    /\ kind = "tcp"
    /\ gen.pc = "tcp_write"
    /\ IF ok
         THEN /\ metrics' = [metrics EXCEPT
                               !.bytes_written = Sat(@ + pool[gen.blk]),
                               !.packets_sent = Sat(@ + 1)]
              /\ gen' = LoopAgain([gen EXCEPT !.connection = TRUE])
         ELSE /\ metrics' = [metrics EXCEPT !.request_failure = Sat(@ + 1)]
              /\ gen' = LoopAgain([gen EXCEPT !.connection = FALSE])
    /\ UNCHANGED <<block_cache, rcv, throttle, fp, svars>>
    /\ GenFrame

TcpShutdown == ShutdownObserved("tcp")

(* ----------------------------- Unix stream ---------------------------- *)
UnixStreamPeek == Peek("unix_stream")

\* sock = net::UnixStream::connect(&self.path), if unix_stream.is_none() => ..
UnixStreamConnect(ok) ==
    /\ kind = "unix_stream"
    /\ gen.pc = "select"
    /\ ~gen.connection
    /\ gen.attempts < MaxBlocks
    /\ gen' = LoopAgain([gen EXCEPT !.connection = ok, !.attempts = @ + 1])
    /\ metrics' = IF ok THEN metrics
                  ELSE [metrics EXCEPT !.connection_failure = Sat(@ + 1)]
    /\ UNCHANGED <<block_cache, rcv, throttle, fp, svars>>
    /\ GenFrame

\* _ = self.throttle.wait_for(total_bytes), if unix_stream.is_some() => ..
UnixStreamThrottle ==
    /\ gen.connection
    /\ Throttled("unix_stream", "uds_while")
    /\ UNCHANGED <<block_cache, metrics, fp, svars>>
    /\ GenFrame

\* the bytes of a block are told apart by their position in it; of what one
\* block's loop emitted, the first MaxEmitted positions are kept
MaxEmitted == MaxBlockSize + 1

\* the bytes try_write(&blk.bytes[offset..]) emits when it answers Ok(n)
Slice(offset, n) == [i \in 1..n |-> offset + i]

Emit(emitted, offset, n) ==
    LET all == emitted \o Slice(offset, n)
    IN  IF Len(all) <= MaxEmitted THEN all ELSE SubSeq(all, 1, MaxEmitted)

\* what stream.ready(..) and stream.try_write(..) can answer for the rest of
\* the block: an error of ready, not writable, n bytes written, WouldBlock,
\* or another write error
WriteOutcomes(rest) ==
    {<<"ready_err", 0>>, <<"not_writable", 0>>, <<"would_block", 0>>,
     <<"write_err", 0>>} \cup {<<"written", n>> : n \in 1..rest}

UnixStreamWriteWouldBlockDrops(out) ==
    /\ kind = "unix_stream"
    /\ gen.pc = "uds_while"
    /\ gen.blk_offset < gen.blk_max
    /\ out \in WriteOutcomes(pool[gen.blk] - gen.blk_offset)
    /\ IF ~gen.connection \/ out[1] = "ready_err"
         THEN \* unix_stream.unwrap() of None, or .unwrap() of the error
              /\ gen' = [gen EXCEPT !.pc = "panicked", !.connection = FALSE]
              /\ UNCHANGED metrics
         ELSE CASE out[1] = "written" ->
                     /\ metrics' = [metrics EXCEPT
                                      !.bytes_written = Sat(@ + out[2]),
                                      !.packets_sent = Sat(@ + 1)]
                     /\ gen' = [gen EXCEPT !.blk_offset = out[2],
                                           !.emitted = IF gen.watched
                                                         THEN Emit(@, gen.blk_offset, out[2])
                                                         ELSE @]
                [] out[1] = "write_err" ->
                     /\ metrics' = [metrics EXCEPT !.request_failure = Sat(@ + 1)]
                     /\ gen' = LoopAgain([gen EXCEPT !.connection = FALSE])
                [] out[1] = "would_block" ->
                     /\ gen' = [gen EXCEPT !.connection = FALSE]
                     /\ UNCHANGED metrics
                [] OTHER ->
                     /\ UNCHANGED <<gen, metrics>>
    /\ UNCHANGED <<block_cache, rcv, throttle, fp, svars>>
    /\ GenFrame

\* one turn of: while blk_offset < blk_max { .. }
UnixStreamWrite(out) ==
    /\ kind = "unix_stream"
    /\ gen.pc = "uds_while"
    /\ gen.blk_offset < gen.blk_max
    /\ out \in WriteOutcomes(pool[gen.blk] - gen.blk_offset)
    /\ IF ~gen.connection \/ out[1] = "ready_err"
         THEN \* unix_stream.unwrap() of None, or .unwrap() of the error
              /\ gen' = [gen EXCEPT !.pc = "panicked", !.connection = FALSE]
              /\ UNCHANGED metrics
         ELSE CASE out[1] = "written" ->
                     /\ metrics' = [metrics EXCEPT
                                      !.bytes_written = Sat(@ + out[2]),
                                      !.packets_sent = Sat(@ + 1)]
                     /\ gen' = [gen EXCEPT !.blk_offset = out[2],
                                           !.emitted = IF gen.watched
                                                         THEN Emit(@, gen.blk_offset, out[2])
                                                         ELSE @]
                [] out[1] = "write_err" ->
                     /\ metrics' = [metrics EXCEPT !.request_failure = Sat(@ + 1)]
                     /\ gen' = LoopAgain([gen EXCEPT !.connection = FALSE])
                [] OTHER ->
                     /\ UNCHANGED <<gen, metrics>>
    /\ UNCHANGED <<block_cache, rcv, throttle, fp, svars>>
    /\ GenFrame

\* the while loop ends: blk_offset >= blk_max
UnixStreamWritten ==
    /\ kind = "unix_stream"
    /\ gen.pc = "uds_while"
    /\ gen.blk_offset >= gen.blk_max
    /\ gen' = LoopAgain(gen)
    /\ UNCHANGED <<block_cache, rcv, throttle, metrics, fp, svars>>
    /\ GenFrame

UnixStreamShutdown == ShutdownObserved("unix_stream")

(* -------------------------------- gRPC --------------------------------- *)
\* let mut client = loop { match self.connect().await { Ok(c) => break c, .. } .. }
GrpcConnect(ok) ==
    /\ kind = "grpc"
    /\ gen.pc = "grpc_connect"
    /\ gen' = IF ok THEN [gen EXCEPT !.connection = TRUE, !.pc = "peek"]
              ELSE [gen EXCEPT !.pc = "grpc_sleep", !.sleep_left = Ticks(100)]
    /\ UNCHANGED <<block_cache, rcv, throttle, metrics, fp, svars>>
    /\ GenFrame

\* tokio::time::sleep(Duration::from_millis(100)).await is over
GrpcSleepDone ==
    /\ kind = "grpc"
    /\ gen.pc = "grpc_sleep"
    /\ gen.sleep_left = 0
    /\ gen' = [gen EXCEPT !.pc = "grpc_connect"]
    /\ UNCHANGED <<block_cache, rcv, throttle, metrics, fp, svars>>
    /\ GenFrame

GrpcPeek == Peek("grpc")

\* _ = self.throttle.wait_for(total_bytes) => { requests_sent.increment(1); ..
GrpcThrottle ==
    /\ Throttled("grpc", "grpc_req")
    /\ metrics' = [metrics EXCEPT !.requests_sent = Sat(@ + 1)]
    /\ UNCHANGED <<block_cache, fp, svars>>
    /\ GenFrame

GrpcReqFailureCountsBytes(ok, response) ==
    /\ kind = "grpc"
    /\ gen.pc = "grpc_req"
    /\ metrics' = IF ok
                    THEN [metrics EXCEPT
                            !.bytes_written = Sat(@ + pool[gen.blk]),
                            !.request_ok = Sat(@ + 1),
                            !.response_bytes = Sat(@ + response)]
                    ELSE [metrics EXCEPT
                            !.bytes_written = Sat(@ + pool[gen.blk]),
                            !.request_failure = Sat(@ + 1)]
    /\ gen' = LoopAgain(gen)
    /\ UNCHANGED <<block_cache, rcv, throttle, fp, svars>>
    /\ GenFrame

\* let res = Self::req(..).await; match res { Ok(res) => .., Err(err) => .. }
GrpcReq(ok, response) ==
    /\ kind = "grpc"
    /\ gen.pc = "grpc_req"
    /\ metrics' = IF ok
                    THEN [metrics EXCEPT
                            !.bytes_written = Sat(@ + pool[gen.blk]),
                            !.request_ok = Sat(@ + 1),
                            !.response_bytes = Sat(@ + response)]
                    ELSE [metrics EXCEPT !.request_failure = Sat(@ + 1)]
    /\ gen' = LoopAgain(gen)
    /\ UNCHANGED <<block_cache, rcv, throttle, fp, svars>>
    /\ GenFrame

\* _ = self.shutdown.recv() => { break; } .. Ok(())
GrpcShutdown == ShutdownObserved("grpc")

(* ----------------------- file generator: Child ------------------------- *)
\* BufWriter::with_capacity(bytes_per_second, ..)
BufCapacity == throttle.capacity_per_second

\* BufWriter::write_all reaches the file: the buffer cannot take the bytes
WriteThrough(n) == fp.buffered + n > BufCapacity \/ n >= BufCapacity

\* the bytes the BufWriter holds after write_all of n bytes
Buffered(n) ==
    IF n >= BufCapacity THEN 0
    ELSE IF fp.buffered + n > BufCapacity THEN n ELSE fp.buffered + n

\* file_index.fetch_add(1, Relaxed); open(path_from_template(..)).await?
ChildOpen(ok) ==
    /\ kind = "file_gen"
    /\ gen.pc = "file_open"
    /\ fp' = [fp EXCEPT !.file_index = fp.shared_index,
                        !.shared_index = @ + 1]
    /\ gen' = IF ok THEN [gen EXCEPT !.pc = "peek"]
              ELSE [gen EXCEPT !.pc = "returned", !.result = "Err"]
    /\ UNCHANGED <<block_cache, rcv, throttle, metrics, svars>>
    /\ GenFrame

ChildPeek == Peek("file_gen")

\* _ = self.throttle.wait_for(total_bytes) => { let blk = rcv.next().. }
ChildThrottle ==
    /\ Throttled("file_gen", "file_write")
    /\ UNCHANGED <<block_cache, metrics, fp, svars>>
    /\ GenFrame

\* fp.write_all(&blk.bytes).await?; bytes_written.increment(total_bytes);
\* total_bytes_written += total_bytes;
ChildWrite(ok) ==
    /\ kind = "file_gen"
    /\ gen.pc = "file_write"
    /\ (~ok => WriteThrough(pool[gen.blk]))
    /\ IF ok
         THEN /\ fp' = [fp EXCEPT !.buffered = Buffered(pool[gen.blk]),
                                  !.total_bytes_written = @ + gen.total_bytes]
              /\ metrics' = [metrics EXCEPT !.bytes_written = Sat(@ + gen.total_bytes)]
              /\ gen' = IF fp.total_bytes_written + gen.total_bytes
                                > fp.maximum_bytes_per_file
                          THEN [gen EXCEPT !.pc = "file_rotate"]
                          ELSE LoopAgain(gen)
         ELSE /\ gen' = [gen EXCEPT !.pc = "returned", !.result = "Err"]
              /\ UNCHANGED <<fp, metrics>>
    /\ UNCHANGED <<block_cache, rcv, throttle, svars>>
    /\ GenFrame

\* if total_bytes_written > maximum_bytes_per_file { flush; remove_file if
\* rotate; next index; open; total_bytes_written = 0 }
ChildRotate(out) ==
    /\ kind = "file_gen"
    /\ gen.pc = "file_rotate"
    /\ out \in {"ok", "flush_err", "open_err"} \cup
                (IF fp.rotate THEN {"remove_err"} ELSE {})
    /\ CASE out = "flush_err" ->
              /\ gen' = [gen EXCEPT !.pc = "returned", !.result = "Err"]
              /\ UNCHANGED fp
         [] out = "remove_err" ->
              /\ gen' = [gen EXCEPT !.pc = "returned", !.result = "Err"]
              /\ fp' = [fp EXCEPT !.buffered = 0]
         [] out = "open_err" ->
              /\ gen' = [gen EXCEPT !.pc = "returned", !.result = "Err"]
              /\ fp' = [fp EXCEPT !.buffered = 0,
                                  !.file_index = fp.shared_index,
                                  !.shared_index = @ + 1]
         [] OTHER ->
              /\ gen' = LoopAgain(gen)
              /\ fp' = [fp EXCEPT !.buffered = 0,
                                  !.file_index = fp.shared_index,
                                  !.shared_index = @ + 1,
                                  !.total_bytes_written = 0]
    /\ UNCHANGED <<block_cache, rcv, throttle, metrics, svars>>
    /\ GenFrame

ChildShutdownWithoutFlush(ok) ==
    /\ kind = "file_gen"
    /\ gen.pc = "select"
    /\ ShutdownRecvResolves(fired)
    /\ gen' = [gen EXCEPT !.pc = "returned", !.result = "Ok",
                          !.observed = TRUE, !.flush = "Ok"]
    /\ UNCHANGED <<block_cache, rcv, throttle, metrics, svars, fp>>
    /\ GenFrame

\* _ = self.shutdown.recv() => { fp.flush().await?; return Ok(()) }
ChildShutdown(ok) ==
    /\ kind = "file_gen"
    /\ gen.pc = "select"
    /\ ShutdownRecvResolves(fired)
    /\ IF ok
         THEN /\ fp' = [fp EXCEPT !.buffered = 0]
              /\ gen' = [gen EXCEPT !.pc = "returned", !.result = "Ok",
                                    !.observed = TRUE, !.flush = "Ok"]
         ELSE /\ UNCHANGED fp
              /\ gen' = [gen EXCEPT !.pc = "returned", !.result = "Err",
                                    !.observed = TRUE, !.flush = "Err"]
    /\ UNCHANGED <<block_cache, rcv, throttle, metrics, svars>>
    /\ GenFrame

NextGen ==
    \/ CacheSend
    \/ CacheFails
    \/ GenTick
    \/ GenSignal
    \/ TcpPeek
    \/ \E ok \in BOOLEAN : TcpConnect(ok)
    \/ TcpSleepDone
    \/ TcpThrottle
    \/ \E ok \in BOOLEAN : TcpWrite(ok)
    \/ TcpShutdown
    \/ UnixStreamPeek
    \/ \E ok \in BOOLEAN : UnixStreamConnect(ok)
    \/ UnixStreamThrottle
    \/ \E out \in WriteOutcomes(MaxBlockSize) : UnixStreamWrite(out)
    \/ UnixStreamWritten
    \/ UnixStreamShutdown
    \/ \E ok \in BOOLEAN : GrpcConnect(ok)
    \/ GrpcSleepDone
    \/ GrpcPeek
    \/ GrpcThrottle
    \/ \E ok \in BOOLEAN, response \in 0..1 : GrpcReq(ok, response)
    \/ GrpcShutdown
    \/ \E ok \in BOOLEAN : ChildOpen(ok)
    \/ ChildPeek
    \/ ChildThrottle
    \/ \E ok \in BOOLEAN : ChildWrite(ok)
    \/ \E out \in {"ok", "flush_err", "remove_err", "open_err"} : ChildRotate(out)
    \/ \E ok \in BOOLEAN : ChildShutdown(ok)

SpecGen == InitGen /\ [][NextGen]_vars

\* the runtime keeps polling spin, every pending I/O operation and sleep
\* completes with some outcome, and the clock keeps running; select! picks
\* among its ready branches at random, so a branch that is ready again and
\* again is taken in the end
GenStep ==
    \/ TcpPeek
    \/ \E ok \in BOOLEAN : TcpConnect(ok)
    \/ TcpSleepDone
    \/ TcpThrottle
    \/ \E ok \in BOOLEAN : TcpWrite(ok)
    \/ UnixStreamPeek
    \/ \E ok \in BOOLEAN : UnixStreamConnect(ok)
    \/ UnixStreamThrottle
    \/ \E out \in WriteOutcomes(MaxBlockSize) : UnixStreamWrite(out)
    \/ UnixStreamWritten
    \/ \E ok \in BOOLEAN : GrpcConnect(ok)
    \/ GrpcSleepDone
    \/ GrpcPeek
    \/ GrpcThrottle
    \/ \E ok \in BOOLEAN, response \in 0..1 : GrpcReq(ok, response)
    \/ \E ok \in BOOLEAN : ChildOpen(ok)
    \/ ChildPeek
    \/ ChildThrottle
    \/ \E ok \in BOOLEAN : ChildWrite(ok)
    \/ \E out \in {"ok", "flush_err", "remove_err", "open_err"} : ChildRotate(out)

ShutdownBranch ==
    \/ TcpShutdown
    \/ UnixStreamShutdown
    \/ GrpcShutdown
    \/ \E ok \in BOOLEAN : ChildShutdown(ok)

FairSpecGen ==
    /\ SpecGen
    /\ WF_vars(GenStep)
    /\ WF_vars(GenTick)
    /\ WF_vars(CacheSend)
    /\ SF_vars(ShutdownBranch)

(* ================= the Unix-stream generator, watched ================== *)
InitStream == InitGenOf({"unix_stream"}, TRUE)

NextStream ==
    \/ CacheSend
    \/ CacheFails
    \/ GenTick
    \/ GenSignal
    \/ UnixStreamPeek
    \/ \E ok \in BOOLEAN : UnixStreamConnect(ok)
    \/ UnixStreamThrottle
    \/ \E out \in WriteOutcomes(MaxBlockSize) : UnixStreamWrite(out)
    \/ UnixStreamWritten
    \/ UnixStreamShutdown

SpecStream == InitStream /\ [][NextStream]_vars

(* =================== FileGen and its duplicate children ================ *)
\* the indices handed out are followed up to this many
MaxIndex == MaxBlocks + 1

\* FileGen::new: one shared file_index, config.duplicates children spawned
InitFiles ==
    /\ RunIdle
    /\ fired = FALSE
    /\ signals = 0
    /\ handles = NoHandles
    /\ kind = "none"
    /\ pool = <<1>>
    /\ block_cache = 1
    /\ rcv = [chan |-> <<>>, buffer |-> 0, closed |-> FALSE]
    /\ gen = NoGen
    /\ throttle = [capacity_per_second |-> 10, max_burst |-> 1, accumulated |-> 0]
    /\ metrics = NoMetrics
    /\ fp = NoFile
    /\ window = NoWindow
    /\ payload = NoPayload
    /\ expvar = NoExpvar
    /\ cli = NoCli
    /\ \E d \in 1..MaxDuplicates, m \in {1, MaxBurst}, r \in BOOLEAN, t \in BOOLEAN :
         filegen = [file_index |-> 0, duplicates |-> d,
                    maximum_bytes_per_file |-> m, rotate |-> r,
                    placeholder |-> t, linked |-> {},
                    spin |-> [pc |-> "recv", result |-> -1],
                    child |-> [c \in 1..MaxDuplicates |->
                                 IF c <= d THEN [NoChild EXCEPT !.st = "spawned"]
                                 ELSE NoChild]]

FilesFrame == UNCHANGED <<rvars, handles, kind, pool, block_cache, rcv, gen,
                          throttle, metrics, fp, window, payload, cli, expvar>>

\* path_template.replace("%NNN%", &format!("{index:04}")): a template without
\* the placeholder gives the same path for every index
path_from_template(placeholder, index) == IF placeholder THEN index ELSE 0

\* the path child c has open
PathOf(c) == path_from_template(filegen.placeholder, filegen.child[c].file_index)

UnlinkedNever(c) == filegen.linked

\* the names left after the rotation's remove_file, when rotate is set
Unlinked(c) == IF filegen.rotate THEN filegen.linked \ {PathOf(c)} ELSE filegen.linked

\* the outcomes of a rotation: remove_file fails on a path that has no name
RotateOutcomes(c) ==
    {"flush_err"} \cup (IF filegen.rotate THEN {"remove_err"} ELSE {})
        \cup (IF filegen.rotate /\ PathOf(c) \notin filegen.linked THEN {}
              ELSE {"ok", "open_err"})

FileChildOpenLoads(c, ok) ==
    /\ filegen.child[c].st = "spawned"
    /\ filegen' = [filegen EXCEPT
                     !.linked = IF ok
                                  THEN @ \cup {path_from_template(filegen.placeholder,
                                                                 filegen.file_index)}
                                  ELSE @,
                     !.child[c].file_index = filegen.file_index,
                     !.child[c] = IF ok THEN [@ EXCEPT !.st = "loop"]
                                  ELSE Returned(@, "failed")]
    /\ UNCHANGED svars
    /\ FilesFrame

\* let mut file_index = self.file_index.fetch_add(1, Relaxed); .. open(&path).await?
FileChildOpen(c, ok) ==
    /\ filegen.child[c].st = "spawned"
    /\ filegen' = [filegen EXCEPT
                     !.file_index = @ + 1,
                     !.linked = IF ok
                                  THEN @ \cup {path_from_template(filegen.placeholder,
                                                                 filegen.file_index)}
                                  ELSE @,
                     !.child[c].file_index = filegen.file_index,
                     !.child[c] = IF ok THEN [@ EXCEPT !.st = "loop"]
                                  ELSE Returned(@, "failed")]
    /\ UNCHANGED svars
    /\ FilesFrame

FileChildWriteRotatesAtMaximum(c, n, ok) ==
    /\ filegen.child[c].st = "loop"
    /\ filegen' = IF ok
                    THEN [filegen EXCEPT
                            !.child[c].total_bytes_written = @ + n,
                            !.child[c].st =
                               IF filegen.child[c].total_bytes_written + n
                                    >= filegen.maximum_bytes_per_file
                                 THEN "rotate" ELSE "loop"]
                    ELSE [filegen EXCEPT !.child[c] = Returned(@, "failed")]
    /\ UNCHANGED svars
    /\ FilesFrame

\* the throttle arm: a block of n bytes is written to the current file
FileChildWrite(c, n, ok) ==
    /\ filegen.child[c].st = "loop"
    /\ filegen' = IF ok
                    THEN [filegen EXCEPT
                            !.child[c].total_bytes_written = @ + n,
                            !.child[c].st =
                               IF filegen.child[c].total_bytes_written + n
                                    > filegen.maximum_bytes_per_file
                                 THEN "rotate" ELSE "loop"]
                    ELSE [filegen EXCEPT !.child[c] = Returned(@, "failed")]
    /\ UNCHANGED svars
    /\ FilesFrame

FileChildRotateKeepsIndex(c, out) ==
    /\ filegen.child[c].st = "rotate"
    /\ out \in RotateOutcomes(c)
    /\ filegen' =
         CASE out = "ok" ->
                [filegen EXCEPT
                   !.linked = Unlinked(c) \cup {PathOf(c)},
                   !.child[c].total_bytes_written = 0,
                   !.child[c].st = "loop"]
           [] out = "open_err" ->
                [filegen EXCEPT
                   !.linked = Unlinked(c),
                   !.child[c] = Returned(@, "failed")]
           [] OTHER ->
                [filegen EXCEPT !.child[c] = Returned(@, "failed")]
    /\ UNCHANGED svars
    /\ FilesFrame

\* if total_bytes_written > maximum_bytes_per_file { flush; remove_file if
\* rotate; file_index = self.file_index.fetch_add(1, Relaxed); open; .. = 0 }
FileChildRotate(c, out) ==
    /\ filegen.child[c].st = "rotate"
    /\ filegen.file_index < MaxIndex
    /\ out \in RotateOutcomes(c)
    /\ filegen' =
         CASE out = "ok" ->
                [filegen EXCEPT
                   !.file_index = @ + 1,
                   !.linked = Unlinked(c) \cup {path_from_template(filegen.placeholder,
                                                                  filegen.file_index)},
                   !.child[c].file_index = filegen.file_index,
                   !.child[c].total_bytes_written = 0,
                   !.child[c].st = "loop"]
           [] out = "open_err" ->
                [filegen EXCEPT
                   !.file_index = @ + 1,
                   !.linked = Unlinked(c),
                   !.child[c] = Returned([@ EXCEPT !.file_index = filegen.file_index],
                                         "failed")]
           [] OTHER ->
                [filegen EXCEPT !.child[c] = Returned(@, "failed")]
    /\ UNCHANGED svars
    /\ FilesFrame

\* _ = self.shutdown.recv() => { fp.flush().await?; return Ok(()) }
FileChildShutdown(c, ok) ==
    /\ filegen.child[c].st = "loop"
    /\ ShutdownRecvResolves(fired)
    /\ filegen' = [filegen EXCEPT
                     !.child[c] = Returned(@, IF ok THEN "returned" ELSE "failed")]
    /\ UNCHANGED svars
    /\ FilesFrame

NextFiles ==
    \/ GenSignal
    \/ \E c \in 1..MaxDuplicates, ok \in BOOLEAN : FileChildOpen(c, ok)
    \/ \E c \in 1..MaxDuplicates, n \in 1..MaxBlockSize : FileChildWrite(c, n, TRUE)
    \/ \E c \in 1..MaxDuplicates : FileChildWrite(c, 1, FALSE)
    \/ \E c \in 1..MaxDuplicates,
           out \in {"ok", "flush_err", "remove_err", "open_err"} :
          FileChildRotate(c, out)
    \/ \E c \in 1..MaxDuplicates, ok \in BOOLEAN : FileChildShutdown(c, ok)

SpecFiles == InitFiles /\ [][NextFiles]_vars

(* --------------------------- FileGen::spin ----------------------------- *)
\* the children FileGen::new spawned, in the order of self.handles
Handles == 1..filegen.duplicates

\* a child's task has completed: its JoinHandle is ready
Joined(c) == filegen.child[c].st \in {"returned", "failed"}

\* self.shutdown.recv().await
FileGenRecv ==
    /\ filegen.spin.pc = "recv"
    /\ ShutdownRecvResolves(fired)
    /\ filegen' = [filegen EXCEPT !.spin.pc = "join"]
    /\ UNCHANGED svars
    /\ FilesFrame

FileGenJoinFirstError ==
    /\ filegen.spin.pc = "join"
    /\ \/ \A c \in Handles : Joined(c)
       \/ \E c \in Handles : filegen.child[c].st = "failed"
    /\ filegen' =
         [filegen EXCEPT
            !.spin = [pc |-> "returned",
                      result |->
                        IF \E c \in Handles : filegen.child[c].st = "failed"
                          THEN CHOOSE c \in Handles :
                                 /\ filegen.child[c].st = "failed"
                                 /\ \A b \in 1..(c - 1) : filegen.child[b].st # "failed"
                          ELSE 0]]
    /\ UNCHANGED svars
    /\ FilesFrame

\* for res in join_all(self.handles.drain(..)).await { .. } Ok(()): every
\* handle is awaited, then the results are read in the order of the handles;
\* the result is the first child that returned an error, 0 for Ok(())
FileGenJoin ==
    /\ filegen.spin.pc = "join"
    /\ \A c \in Handles : Joined(c)
    /\ filegen' =
         [filegen EXCEPT
            !.spin = [pc |-> "returned",
                      result |->
                        IF \E c \in Handles : filegen.child[c].st = "failed"
                          THEN CHOOSE c \in Handles :
                                 /\ filegen.child[c].st = "failed"
                                 /\ \A b \in 1..(c - 1) : filegen.child[b].st # "failed"
                          ELSE 0]]
    /\ UNCHANGED svars
    /\ FilesFrame

NextFileGen == NextFiles \/ FileGenRecv \/ FileGenJoin

SpecFileGen == InitFiles /\ [][NextFileGen]_vars

(* ======================= DogStatsD::to_bytes =========================== *)
\* the longest encoding of a member, and the largest max_bytes
MaxRecord == MaxBlockSize
MaxBytes == 2 * MaxBlockSize

\* the byte that ends a record
Newline == 0

\* one draw from the generator: the next state of the PRNG
Step(rng) == (5 * rng + 1) % (MaxSeed + 1)

\* MemberGenerator::generate: the member is a function of the PRNG's state,
\* and the PRNG advances
generate(rng) ==
    [member |-> [kind |-> 1 + (rng % 3), length |-> 1 + ((rng \div 3) % MaxRecord)],
     rng |-> Step(rng)]

\* format!("{member}"): the bytes of the member, none of them a newline
Encoding(member) == [i \in 1..member.length |-> member.kind]

line_length_without_newline(member) == Len(Encoding(member))

\* let line_length = encoding.len() + 1
line_length(member) == Len(Encoding(member)) + 1

\* usize::checked_sub: None is -1
checked_sub(a, b) == IF a >= b THEN a - b ELSE -1

\* the first n bytes of a sequence
Prefix(seq, n) == SubSeq(seq, 1, n)

\* DogStatsD::new consumes the PRNG before to_bytes gets it; two calls with
\* the same seed are followed side by side
InitPayload ==
    /\ RunIdle
    /\ fired = FALSE
    /\ signals = 0
    /\ handles = NoHandles
    /\ kind = "none"
    /\ pool = <<1>>
    /\ block_cache = 1
    /\ rcv = [chan |-> <<>>, buffer |-> 0, closed |-> FALSE]
    /\ gen = NoGen
    /\ throttle = [capacity_per_second |-> 10, max_burst |-> 1, accumulated |-> 0]
    /\ metrics = NoMetrics
    /\ fp = NoFile
    /\ window = NoWindow
    /\ filegen = NoFileGen
    /\ cli = NoCli
    /\ expvar = NoExpvar
    /\ \E seed \in 0..MaxSeed, max_bytes \in 0..MaxBytes :
         payload = [max_bytes |-> max_bytes, seed |-> seed,
                    run |-> [i \in 1..2 |->
                               [pc |-> "loop", rng |-> Step(seed),
                                bytes_remaining |-> max_bytes, out |-> <<>>]]]

PayloadFrame == UNCHANGED <<rvars, svars, handles, kind, pool, block_cache, rcv, gen,
                            throttle, metrics, fp, window, filegen, cli,
                            expvar>>

ToBytesTruncates(i, w) ==
    LET r == payload.run[i]
        g == generate(r.rng)
        line == Encoding(g.member) \o <<Newline>>
        remainder == checked_sub(r.bytes_remaining, line_length(g.member))
    IN  /\ i \in DOMAIN payload.run
        /\ r.pc = "loop"
        /\ w \in 0..Len(line)
        /\ remainder = -1 => w = 0
        /\ payload' =
             [payload EXCEPT !.run[i] =
                 CASE remainder = -1 ->
                        [r EXCEPT !.pc = "ok", !.rng = g.rng,
                                  !.out = @ \o Prefix(line, r.bytes_remaining),
                                  !.bytes_remaining = 0]
                   [] remainder # -1 /\ w = Len(line) ->
                        [r EXCEPT !.rng = g.rng, !.out = @ \o line,
                                  !.bytes_remaining = remainder]
                   [] OTHER ->
                        [r EXCEPT !.pc = "err", !.rng = g.rng,
                                  !.out = @ \o Prefix(line, w)]]
        /\ PayloadFrame

ToBytesUnseeded(i, w) ==
    LET r == payload.run[i]
        g == generate((r.rng + i) % (MaxSeed + 1))
        line == Encoding(g.member) \o <<Newline>>
        remainder == checked_sub(r.bytes_remaining, line_length(g.member))
    IN  /\ i \in DOMAIN payload.run
        /\ r.pc = "loop"
        /\ w \in 0..Len(line)
        /\ remainder = -1 => w = 0
        /\ payload' =
             [payload EXCEPT !.run[i] =
                 CASE remainder = -1 ->
                        [r EXCEPT !.pc = "ok", !.rng = g.rng]
                   [] remainder # -1 /\ w = Len(line) ->
                        [r EXCEPT !.rng = g.rng, !.out = @ \o line,
                                  !.bytes_remaining = remainder]
                   [] OTHER ->
                        [r EXCEPT !.pc = "err", !.rng = g.rng,
                                  !.out = @ \o Prefix(line, w)]]
        /\ PayloadFrame

\* one iteration of the loop of to_bytes in call i; the writer accepts w bytes
\* of the line, and fails unless it accepted them all
ToBytes(i, w) ==
    LET r == payload.run[i]
        g == generate(r.rng)
        line == Encoding(g.member) \o <<Newline>>
        remainder == checked_sub(r.bytes_remaining, line_length(g.member))
    IN  /\ i \in DOMAIN payload.run
        /\ r.pc = "loop"
        /\ w \in 0..Len(line)
        /\ remainder = -1 => w = 0
        /\ payload' =
             [payload EXCEPT !.run[i] =
                 CASE remainder = -1 ->
                        [r EXCEPT !.pc = "ok", !.rng = g.rng]
                   [] remainder # -1 /\ w = Len(line) ->
                        [r EXCEPT !.rng = g.rng, !.out = @ \o line,
                                  !.bytes_remaining = remainder]
                   [] OTHER ->
                        [r EXCEPT !.pc = "err", !.rng = g.rng,
                                  !.out = @ \o Prefix(line, w)]]
        /\ PayloadFrame

NextPayload == \E i \in 1..2, w \in 0..(MaxRecord + 1) : ToBytes(i, w)

SpecPayload == InitPayload /\ [][NextPayload]_vars

\* a call of to_bytes that has not returned goes on
FairSpecPayload == SpecPayload /\ WF_vars(NextPayload)

(* ============================ get_config =============================== *)
\* the label keys and values that are followed
LabelKeys == {"k1", "k2"}
LabelValues == {"v1", "v2"}

\* the maps of labels: FxHashMap<String, String>
LabelMaps == UNION {[K -> LabelValues] : K \in SUBSET LabelKeys}

\* for (k, v) in options_global_labels.inner { global_labels.insert(k, v); }
InsertAll(global_labels, inner) ==
    [k \in DOMAIN global_labels \cup DOMAIN inner |->
        IF k \in DOMAIN inner THEN inner[k] ELSE global_labels[k]]

\* Opts as clap parsed it, and the telemetry of the configuration file
InitConfig ==
    /\ RunIdle
    /\ fired = FALSE
    /\ signals = 0
    /\ handles = NoHandles
    /\ kind = "none"
    /\ pool = <<1>>
    /\ block_cache = 1
    /\ rcv = [chan |-> <<>>, buffer |-> 0, closed |-> FALSE]
    /\ gen = NoGen
    /\ throttle = [capacity_per_second |-> 10, max_burst |-> 1, accumulated |-> 0]
    /\ metrics = NoMetrics
    /\ fp = NoFile
    /\ window = NoWindow
    /\ filegen = NoFileGen
    /\ payload = NoPayload
    /\ expvar = NoExpvar
    /\ \E prom \in {"None", "addr", "not an addr"}, capture \in {"None", "path"},
          labels \in {l \in [some : BOOLEAN, inner : LabelMaps] :
                        ~l.some => l.inner = <<>>},
          file \in [variant : {"Prometheus", "Log"}, global_labels : LabelMaps] :
         cli = [pc |-> "get_config",
                ops |-> [prometheus_addr |-> prom, capture_path |-> capture,
                         global_labels |-> labels],
                file |-> file,
                telemetry |-> file]

CliFrame == UNCHANGED <<rvars, svars, handles, kind, pool, block_cache, rcv, gen,
                        throttle, metrics, fp, window, filegen, payload,
                        expvar>>

\* get_config, from `let options_global_labels` on: the telemetry of the
\* configuration it returns; ops.global_labels.clone().unwrap_or_default() is
\* the empty map when the flag is absent
GetConfig ==
    LET ops == cli.ops
        options_global_labels == ops.global_labels.inner
    IN  /\ cli.pc = "get_config"
        /\ cli' =
             IF ops.prometheus_addr # "None"
               THEN IF ops.prometheus_addr = "addr"
                      THEN [cli EXCEPT
                              !.pc = "returned",
                              !.telemetry = [variant |-> "Prometheus",
                                             global_labels |-> options_global_labels]]
                      ELSE [cli EXCEPT !.pc = "panicked"]
               ELSE IF ops.capture_path # "None"
                      THEN [cli EXCEPT
                              !.pc = "returned",
                              !.telemetry = [variant |-> "Log",
                                             global_labels |-> options_global_labels]]
                      ELSE [cli EXCEPT
                              !.pc = "returned",
                              !.telemetry.global_labels =
                                  InsertAll(@, options_global_labels)]
        /\ CliFrame

NextConfig == GetConfig

SpecConfig == InitConfig /\ [][NextConfig]_vars

(* ============================ CliKeyValues ============================== *)
\* the longest --global-labels argument that is followed
MaxInput == 7

\* the characters of an argument: two letters and the two separators
Chars == {"a", "b", "=", ","}

\* str::split: the pieces between the occurrences of the separator, in
\* order; the empty string has one piece, the empty one
RECURSIVE split(_, _)
split(input, sep) ==
    IF \E i \in 1..Len(input) : input[i] = sep
      THEN LET i == CHOOSE i \in 1..Len(input) :
                      input[i] = sep /\ \A j \in 1..(i - 1) : input[j] # sep
           IN  <<SubSeq(input, 1, i - 1)>>
                 \o split(SubSeq(input, i + 1, Len(input)), sep)
      ELSE <<input>>

\* FxHashMap::insert: the value of a key already present is replaced
insert(labels, key, value) ==
    [k \in DOMAIN labels \cup {key} |-> IF k = key THEN value ELSE labels[k]]

is_empty_never(kv) == FALSE

\* kv.is_empty()
is_empty(kv) == kv = <<>>

\* the loop of CliKeyValues::from_str over input.split(','): an empty piece
\* is skipped, pair.next() is the text before the first '=' and the second
\* pair.next() the text up to the next '=', None when the piece has no '=';
\* the first None returns Err(pair_err)
RECURSIVE from_str_loop(_, _)
from_str_loop(kvs, labels) ==
    IF kvs = <<>>
      THEN [ok |-> TRUE, inner |-> labels]
      ELSE LET kv == Head(kvs)
               pair == split(kv, "=")
           IN  IF is_empty(kv)
                 THEN from_str_loop(Tail(kvs), labels)
                 ELSE IF Len(pair) < 2
                        THEN [ok |-> FALSE, err |-> "pairs must be separated by '='"]
                        ELSE from_str_loop(Tail(kvs), insert(labels, pair[1], pair[2]))

\* CliKeyValues::from_str
from_str(input) == from_str_loop(split(input, ","), <<>>)

\* the orders in which FxHashMap::iter may visit the entries of a map
Orders(inner) ==
    {o \in [1..Cardinality(DOMAIN inner) -> DOMAIN inner] :
        \A i, j \in DOMAIN o : i # j => o[i] # o[j]}

\* Display for CliKeyValues: write!(f, "{}={},", k, v) for each entry in the
\* order given
RECURSIVE fmt(_, _)
fmt(inner, order) ==
    IF order = <<>>
      THEN <<>>
      ELSE Head(order) \o <<"=">> \o inner[Head(order)] \o <<",">>
             \o fmt(inner, Tail(order))

\* an argument of at most MaxInput characters, not yet parsed
InitCli ==
    /\ RunIdle
    /\ fired = FALSE
    /\ signals = 0
    /\ handles = NoHandles
    /\ kind = "none"
    /\ pool = <<1>>
    /\ block_cache = 1
    /\ rcv = [chan |-> <<>>, buffer |-> 0, closed |-> FALSE]
    /\ gen = NoGen
    /\ throttle = [capacity_per_second |-> 10, max_burst |-> 1, accumulated |-> 0]
    /\ metrics = NoMetrics
    /\ fp = NoFile
    /\ window = NoWindow
    /\ filegen = NoFileGen
    /\ payload = NoPayload
    /\ expvar = NoExpvar
    /\ \E n \in 0..MaxInput : \E val \in [1..n -> Chars] :
         cli = [pc |-> "from_str", val |-> val]

\* let deser = CliKeyValues::from_str(val);
FromStr ==
    /\ cli.pc = "from_str"
    /\ cli' = [pc |-> "parsed", val |-> cli.val, deser |-> from_str(cli.val)]
    /\ CliFrame

\* deser.unwrap().to_string(): the map is displayed in the order its
\* iterator happens to have
to_string ==
    /\ cli.pc = "parsed"
    /\ cli.deser.ok
    /\ \E order \in Orders(cli.deser.inner) :
         cli' = [cli EXCEPT !.pc = "displayed"] @@
                [string |-> fmt(cli.deser.inner, order)]
    /\ CliFrame

\* the displayed form is parsed again
FromStrDisplayed ==
    /\ cli.pc = "displayed"
    /\ cli' = [cli EXCEPT !.pc = "reparsed"] @@ [again |-> from_str(cli.string)]
    /\ CliFrame

NextCli == FromStr \/ to_string \/ FromStrDisplayed

SpecCli == InitCli /\ [][NextCli]_vars

(* ============================== Expvar ================================= *)
\* the largest number the target publishes in a variable
MaxGauge == 2

\* config.vars: the JSON pointers that are scraped
ExpvarVars == {"/a", "/b"}

\* the JSON documents the target may answer with: at each pointer a number
\* in 1..MaxGauge, or 0 for a value that is absent or not a number
\* (json.pointer(var_name).and_then(Value::as_f64) is None)
ExpvarDocs == [ExpvarVars -> 0..MaxGauge]

\* Expvar::run was called: the server future is at its first sleep, no gauge
\* of the target has been set
InitExpvar ==
    /\ RunIdle
    /\ fired = FALSE
    /\ signals = 0
    /\ handles = NoHandles
    /\ kind = "none"
    /\ pool = <<1>>
    /\ block_cache = 1
    /\ rcv = [chan |-> <<>>, buffer |-> 0, closed |-> FALSE]
    /\ gen = NoGen
    /\ throttle = [capacity_per_second |-> 10, max_burst |-> 1, accumulated |-> 0]
    /\ metrics = NoMetrics
    /\ fp = NoFile
    /\ window = NoWindow
    /\ filegen = NoFileGen
    /\ payload = NoPayload
    /\ cli = NoCli
    /\ expvar = [pc |-> "sleep", result |-> "none", last |-> "none",
                 gauges |-> [v \in ExpvarVars |-> 0]]

ExpvarFrame == UNCHANGED <<rvars, svars, handles, kind, pool, block_cache, rcv, gen,
                           throttle, metrics, fp, window, filegen, payload, cli>>

\* tokio::time::sleep(Duration::from_secs(1)).await completes
ExpvarSleepDone ==
    /\ expvar.pc = "sleep"
    /\ expvar' = [expvar EXCEPT !.pc = "send"]
    /\ ExpvarFrame

ExpvarSendFailureReturns(ok) ==
    /\ expvar.pc = "send"
    /\ expvar' = IF ok THEN [expvar EXCEPT !.pc = "json", !.last = "sent"]
                 ELSE [expvar EXCEPT !.pc = "returned", !.result = "EarlyShutdown",
                                     !.last = "send_err"]
    /\ ExpvarFrame

\* let Ok(resp) = client.get(..).timeout(..).send().await else { continue }
ExpvarSend(ok) ==
    /\ expvar.pc = "send"
    /\ expvar' = IF ok THEN [expvar EXCEPT !.pc = "json", !.last = "sent"]
                 ELSE [expvar EXCEPT !.pc = "sleep", !.last = "send_err"]
    /\ ExpvarFrame

\* let Ok(json) = resp.json::<Value>().await else { continue }; then, for
\* each var_name with a number at its pointer, gauge!(.., val)
ExpvarJson(ok, json) ==
    /\ expvar.pc = "json"
    /\ expvar' =
         IF ok
           THEN [expvar EXCEPT
                   !.pc = "sleep",
                   !.last = "scraped",
                   !.gauges = [var_name \in ExpvarVars |->
                                 IF json[var_name] # 0 THEN json[var_name] ELSE @[var_name]]]
           ELSE [expvar EXCEPT !.pc = "sleep", !.last = "json_err"]
    /\ ExpvarFrame

\* _ = self.shutdown.recv() => { Ok(()) }: the server future is dropped at
\* the await it is parked on
ExpvarShutdown ==
    /\ expvar.pc \in {"sleep", "send", "json"}
    /\ ShutdownRecvResolves(fired)
    /\ expvar' = [expvar EXCEPT !.pc = "returned", !.result = "Ok"]
    /\ ExpvarFrame

NextExpvar ==
    \/ GenSignal
    \/ ExpvarSleepDone
    \/ \E ok \in BOOLEAN : ExpvarSend(ok)
    \/ \E json \in ExpvarDocs : ExpvarJson(TRUE, json)
    \/ ExpvarJson(FALSE, [v \in ExpvarVars |-> 0])
    \/ ExpvarShutdown

SpecExpvar == InitExpvar /\ [][NextExpvar]_vars

(* ===================== Tcp::new and FileGen::new ======================== *)
\* the width of a u32, scaled down to keep the configured values few
U32Bits == 3

\* u32::MAX + 1
U32 == 2 ^ U32Bits

\* the byte counts a configuration may give: Byte holds more than 32 bits,
\* so the values below, at and beyond u32::MAX + 1 are followed
ConfigBytes == 0..(2 * U32 + 1)

\* `bytes as u32` of a wider unsigned integer: the low 32 bits
as_u32(bytes) == bytes % U32

\* NonZeroU32::new(n).unwrap() returns: n is not zero
NonZeroU32(n) == n # 0

\* a generator configuration is handed to Tcp::new or FileGen::new
InitNew ==
    /\ RunIdle
    /\ fired = FALSE
    /\ signals = 0
    /\ handles = NoHandles
    /\ kind \in {"tcp", "file_gen"}
    /\ pool = <<1>>
    /\ block_cache = 1
    /\ rcv = [chan |-> <<>>, buffer |-> 0, closed |-> FALSE]
    /\ \E b \in ConfigBytes, m \in ConfigBytes :
         /\ kind = "tcp" => m = 1
         /\ gen = [pc |-> "new",
                   config |-> [bytes_per_second |-> b, maximum_bytes_per_file |-> m],
                   gauge |-> -1]
    /\ throttle = [capacity_per_second |-> 10, max_burst |-> 1, accumulated |-> 0]
    /\ metrics = NoMetrics
    /\ fp = NoFile
    /\ window = NoWindow
    /\ filegen = NoFileGen
    /\ payload = NoPayload
    /\ expvar = NoExpvar
    /\ cli = NoCli

\* Tcp::new and FileGen::new, from `let bytes_per_second` on: the rate is
\* converted and published in the bytes_per_second gauge, FileGen::new
\* converts maximum_bytes_per_file as well, and the throttle and the
\* children are built with the converted values; an unwrap() of None panics
New ==
    LET bytes_per_second == as_u32(gen.config.bytes_per_second)
        maximum_bytes_per_file == as_u32(gen.config.maximum_bytes_per_file)
    IN  /\ gen.pc = "new"
        /\ IF ~NonZeroU32(bytes_per_second)
             THEN /\ gen' = [gen EXCEPT !.pc = "panicked"]
                  /\ UNCHANGED <<throttle, fp>>
             ELSE IF kind = "file_gen" /\ ~NonZeroU32(maximum_bytes_per_file)
                    THEN /\ gen' = [gen EXCEPT !.pc = "panicked",
                                               !.gauge = bytes_per_second]
                         /\ UNCHANGED <<throttle, fp>>
                    ELSE /\ gen' = [gen EXCEPT !.pc = "built",
                                               !.gauge = bytes_per_second]
                         /\ throttle' = [throttle EXCEPT
                                           !.capacity_per_second = bytes_per_second]
                         /\ fp' = IF kind = "file_gen"
                                    THEN [fp EXCEPT !.maximum_bytes_per_file =
                                                       maximum_bytes_per_file]
                                    ELSE fp
        /\ UNCHANGED <<rvars, svars, handles, kind, pool, block_cache, rcv, metrics,
                       window, filegen, payload, cli, expvar>>

NextNew == New

SpecNew == InitNew /\ [][NextNew]_vars

(* ========================= the throttle alone ========================== *)
\* the longest window observed: one second and a few ticks more
MaxWindow == Ticks(1000) + MaxBlocks

InitThrottle ==
    /\ RunIdle
    /\ fired = FALSE
    /\ signals = 0
    /\ handles = NoHandles
    /\ kind = "none"
    /\ pool = <<1>>
    /\ block_cache = 1
    /\ rcv = [chan |-> <<>>, buffer |-> 0, closed |-> FALSE]
    /\ gen = NoGen
    /\ \E b \in 1..MaxBurst :
         throttle = [capacity_per_second |-> 10, max_burst |-> b, accumulated |-> 0]
    /\ metrics = NoMetrics
    /\ fp = NoFile
    /\ window = NoWindow
    /\ filegen = NoFileGen
    /\ payload = NoPayload
    /\ expvar = NoExpvar
    /\ cli = NoCli

ThrottleFrame == UNCHANGED <<rvars, svars, handles, kind, pool, block_cache, rcv,
                            gen, metrics, fp, filegen, payload, cli, expvar>>

\* 100 ms pass
ThrottleTick ==
    /\ window.open => window.ticks < MaxWindow
    /\ throttle' = [throttle EXCEPT !.accumulated = Refill(throttle)]
    /\ window' = IF window.open THEN [window EXCEPT !.ticks = @ + 1] ELSE window
    /\ ThrottleFrame

\* wait_for(n) completes: n tokens are charged, or the request is refused
ThrottleWaitFor(n) ==
    /\ WaitForReady(throttle, n)
    /\ throttle' = WaitForDone(throttle, n)
    /\ window' = IF window.open /\ ~WaitForFails(throttle, n)
                   THEN [window EXCEPT !.charged = @ + n] ELSE window
    /\ ThrottleFrame

\* an observer starts a window, at any moment
WindowOpen ==
    /\ ~window.open
    /\ window' = [open |-> TRUE, ticks |-> 0, charged |-> 0]
    /\ UNCHANGED throttle
    /\ ThrottleFrame

NextThrottle ==
    \/ ThrottleTick
    \/ \E n \in 1..MaxBlockSize : ThrottleWaitFor(n)
    \/ WindowOpen

SpecThrottle == InitThrottle /\ [][NextThrottle]_vars

\* C11: over a window of at least one second the bytes charged are at most
\* capacity_per_second times the window's length plus max_burst; the
\* accumulator stays between 0 and max_burst.
C11_ChargedWithinRateAndBurst ==
    /\ throttle.accumulated >= 0
    /\ throttle.accumulated <= throttle.max_burst
    /\ (window.open /\ window.ticks >= Ticks(1000)) =>
          window.charged * Ticks(1000)
            <= throttle.capacity_per_second * window.ticks
                 + throttle.max_burst * Ticks(1000)

C11_Witness ==
    /\ window.open
    /\ window.ticks = Ticks(1000)
    /\ throttle.max_burst = MaxBurst
    /\ window.charged * Ticks(1000)
         = throttle.capacity_per_second * window.ticks
             + throttle.max_burst * Ticks(1000)

(* ====================== properties of the generators =================== *)
\* C6: a generator whose send loop observed the shutdown signal has flushed
\* its buffered writer and its spin has returned Ok.
C6_ShutdownFlushesAndReturnsOk ==
    gen.observed =>
        /\ gen.pc = "returned"
        /\ gen.result = "Ok"
        /\ fp.buffered = 0

\* C6, amended: a generator whose send loop observed the shutdown signal has
\* returned; the TCP, Unix-stream and gRPC generators, which hold no buffered
\* writer, return Ok; the file generator's child has flushed its writer, and
\* returns Ok with nothing left in the buffer when the flush succeeded and
\* the flush's error when it failed.
C6_ShutdownFlushesAndReturnsFlushResult ==
    gen.observed =>
        /\ gen.pc = "returned"
        /\ kind # "file_gen" => (gen.result = "Ok" /\ gen.flush = "none")
        /\ kind = "file_gen" =>
             /\ gen.flush \in {"Ok", "Err"}
             /\ gen.result = gen.flush
             /\ (gen.result = "Ok" => fp.buffered = 0)

C6_Witness ==
    /\ kind = "file_gen"
    /\ gen.observed
    /\ gen.result = "Ok"
    /\ fp.buffered = 0
    /\ metrics.bytes_written > 0
    /\ fp.total_bytes_written > 0

\* C7: once shutdown is signalled, the generator's spin returns.
C7_SignalledGeneratorReturns == fired ~> Stopped

\* C9: a block is on its way to the transport only when the throttle granted
\* its total_bytes; a wait_for that failed leaves the block unwritten.
Writing == gen.pc \in {"tcp_write", "uds_while", "grpc_req", "file_write"}

C9_WriteOnlyAfterGrant ==
    Writing => (gen.granted = "Ok" /\ gen.requested = pool[gen.blk])

\* C10: the block next() hands out is the block the last peek() showed, so
\* the tokens asked of the throttle are the total_bytes of the block that is
\* consumed and written.
C10_PeekThenNextSameBlock ==
    /\ (gen.pc = "select" =>
          /\ rcv.buffer # 0
          /\ gen.total_bytes = pool[rcv.buffer])
    /\ (Writing =>
          /\ gen.requested = pool[gen.blk]
          /\ gen.blk_max = pool[gen.blk])

C10_Witness ==
    /\ kind = "tcp"
    /\ gen.pc = "tcp_write"
    /\ gen.attempts = 2
    /\ gen.blk = 2
    /\ pool[1] # pool[2]

\* C12: when another branch of the select! wins (shutdown, or a connect), the
\* pending wait_for is dropped: the bucket keeps its tokens and the receiver
\* keeps the block that was peeked.
C12_DroppedWaitForChargesNothing ==
    [][(gen.pc = "select" /\ gen'.pc # "select" /\ gen'.sent = gen.sent) =>
          /\ throttle' = throttle
          /\ rcv' = rcv
          /\ rcv.buffer # 0]_vars

C12_Witness ==
    /\ kind = "tcp"
    /\ gen.observed
    /\ gen.connection
    /\ metrics.packets_sent > 0
    /\ rcv.buffer # 0
    /\ gen.total_bytes = pool[rcv.buffer]
    /\ gen.total_bytes <= throttle.max_burst
    /\ throttle.accumulated < gen.total_bytes

\* C13: a TCP or Unix-stream generator without a connection takes no block
\* from the receiver and writes nothing, and its connection_failure never
\* decreases; one whose every connection attempt failed has written nothing.
Disconnected == kind \in {"tcp", "unix_stream"} /\ ~gen.connection

C13_DisconnectedConsumesNothing ==
    /\ [][Disconnected =>
            /\ gen'.sent = gen.sent
            /\ metrics'.bytes_written = metrics.bytes_written
            /\ metrics'.packets_sent = metrics.packets_sent
            /\ metrics'.connection_failure >= metrics.connection_failure]_vars
    /\ []((kind \in {"tcp", "unix_stream"}
             /\ metrics.connection_failure = gen.attempts) =>
            /\ gen.sent = 0
            /\ metrics.bytes_written = 0
            /\ metrics.packets_sent = 0)

C13_Witness ==
    /\ kind = "tcp"
    /\ gen.pc = "select"
    /\ gen.attempts = MaxBlocks
    /\ metrics.connection_failure = gen.attempts
    /\ rcv.buffer # 0
    /\ throttle.accumulated >= gen.total_bytes
    /\ metrics.bytes_written = 0

\* C14: a failed connection attempt of the TCP, Unix-stream or gRPC generator
\* adds exactly one to connection_failure and does not end spin.
FailedConnect ==
    \/ kind = "tcp" /\ gen.pc = "select" /\ gen'.pc = "tcp_sleep"
    \/ kind = "unix_stream" /\ gen'.attempts = gen.attempts + 1 /\ ~gen'.connection
    \/ kind = "grpc" /\ gen.pc = "grpc_connect" /\ gen'.pc = "grpc_sleep"

C14_FailedConnectCounted ==
    [][FailedConnect =>
          /\ metrics'.connection_failure = metrics.connection_failure + 1
          /\ gen'.pc \notin {"returned", "panicked"}]_vars

\* C15: a failed connection attempt is followed by a sleep of at least 100 ms
\* (1 s for TCP), and no connection attempt is made while that sleep lasts.
ConnectAttempt ==
    \/ kind \in {"tcp", "unix_stream"} /\ gen'.attempts = gen.attempts + 1
    \/ kind = "grpc" /\ gen.pc = "grpc_connect" /\ gen'.pc # "grpc_connect"

BackOff == IF kind = "tcp" THEN Ticks(1000) ELSE Ticks(100)

C15_SleepsBeforeRetry ==
    /\ [][FailedConnect => gen'.sleep_left >= BackOff]_vars
    /\ [][ConnectAttempt => gen.sleep_left = 0]_vars

\* C16: a write error of the TCP or Unix-stream generator drops the
\* connection, adds one to request_failure and sends the loop back to its
\* head without ending spin; from there only a connect can be selected, not
\* a write.
WriteError ==
    \/ /\ kind = "tcp"
       /\ gen.pc = "tcp_write"
       /\ gen'.pc # "tcp_write"
       /\ metrics'.packets_sent = metrics.packets_sent
    \/ /\ kind = "unix_stream"
       /\ gen.pc = "uds_while"
       /\ gen.blk_offset < gen.blk_max
       /\ gen'.pc \notin {"uds_while", "panicked"}

Block(size) == [i \in 1..size |-> i]

C17_PartialWritesEmitTheBlock ==
    (kind = "unix_stream" /\ gen.pc = "uds_while") =>
        /\ Len(gen.emitted) <= gen.blk_max
        /\ gen.emitted = Block(Len(gen.emitted))
        /\ (gen.blk_offset >= gen.blk_max => gen.emitted = Block(pool[gen.blk]))

\* C18: in the partial-write loop, bytes_written grows by the number of
\* bytes a step put on the stream, and packets_sent grows by one in the step
\* that completes the block and not at all in any other step.
InWriteLoop == kind = "unix_stream" /\ gen.pc = "uds_while" /\ gen'.pc = "uds_while"

CompletesBlock == gen.blk_offset < gen.blk_max /\ gen'.blk_offset >= gen'.blk_max

C18_CountsEmittedBytesAndBlocks ==
    [][InWriteLoop =>
          /\ Len(gen'.emitted) < MaxEmitted =>
                metrics'.bytes_written
                  = Sat(metrics.bytes_written + (Len(gen'.emitted) - Len(gen.emitted)))
          /\ metrics'.packets_sent
                = Sat(metrics.packets_sent + (IF CompletesBlock THEN 1 ELSE 0))]_vars

\* C19: the blocks a generator writes are the blocks the cache produced, in
\* the order it produced them: the k-th block taken for writing is the k-th
\* block of the cache, a block is taken only when it is the next one, and no
\* part of a block is put on the transport twice.
Produced(k) == ((k - 1) % Len(pool)) + 1

TakenInOrder ==
    (gen'.sent # gen.sent \/ (~Writing /\ Writing')) =>
        /\ gen'.sent = gen.sent + 1
        /\ ~Writing
        /\ Writing' \/ gen'.pc = "panicked"

C19_BlocksWrittenInCacheOrder ==
    /\ [](Writing => gen.blk = Produced(gen.sent))
    /\ [][TakenInOrder]_vars
    /\ [][(kind # "unix_stream" /\ Writing /\ metrics' # metrics) => ~Writing']_vars
    /\ [](\A i, j \in DOMAIN gen.emitted : i < j => gen.emitted[i] < gen.emitted[j])

\* a step in which child c leaves the rotation with a new file open
Rotated(c) ==
    /\ filegen.child[c].st = "rotate"
    /\ filegen'.child[c].st = "loop"

\* C20: whenever a worker's total_bytes_written crosses
\* maximum_bytes_per_file, the file it opens next has the worker's previous
\* index plus one.
C20_NextIndexIsPreviousPlusOne ==
    [][\A c \in 1..MaxDuplicates :
         /\ filegen'.child[c].st = "loop" =>
               filegen'.child[c].total_bytes_written
                   <= filegen.maximum_bytes_per_file
         /\ Rotated(c) =>
               filegen'.child[c].file_index = filegen.child[c].file_index + 1]_vars

\* C20, amended: a worker whose total_bytes_written crossed
\* maximum_bytes_per_file does not write again before it has opened a new
\* file and reset its count; the new file's index is the next value of the
\* counter the workers share, which is greater than the worker's previous
\* index, and is the previous index plus one when the FileGen has a single
\* worker.
C20_NextIndexIsNextOfSharedCounter ==
    [][\A c \in 1..MaxDuplicates :
         /\ filegen'.child[c].st = "loop" =>
               filegen'.child[c].total_bytes_written
                   <= filegen.maximum_bytes_per_file
         /\ Rotated(c) =>
               /\ filegen'.child[c].total_bytes_written = 0
               /\ filegen'.child[c].file_index = filegen.file_index
               /\ filegen'.file_index = filegen.file_index + 1
               /\ filegen'.child[c].file_index > filegen.child[c].file_index
               /\ filegen.duplicates = 1 =>
                     filegen'.child[c].file_index
                         = filegen.child[c].file_index + 1]_vars

\* two workers hold the indices 0 and 1; the first has rotated and holds 2
C20_Witness ==
    /\ filegen.duplicates = 2
    /\ filegen.file_index = 3
    /\ filegen.child[1].st = "loop"
    /\ filegen.child[1].file_index = 2
    /\ filegen.child[1].total_bytes_written = 0
    /\ filegen.child[2].file_index = 1

\* the paths that are the most recently opened file of some worker, after a step
MostRecent ==
    {path_from_template(filegen'.placeholder, filegen'.child[c].file_index) :
        c \in {d \in 1..MaxDuplicates : filegen'.child[d].st \notin {"none", "spawned"}}}

\* C21: with rotate=true the previous path no longer resolves after a
\* rotation, and only the most recently opened file of a worker is linked;
\* with rotate=false no file is ever unlinked.
C21_OnlyMostRecentLinked ==
    [][/\ ~filegen.rotate => filegen.linked \subseteq filegen'.linked
       /\ filegen.rotate => filegen'.linked \subseteq MostRecent
       /\ \A c \in 1..MaxDuplicates :
             filegen.rotate /\ Rotated(c) => PathOf(c) \notin filegen'.linked]_vars

\* C21, amended: with rotate=false no file is ever unlinked; with rotate=true
\* only the most recently opened file of a worker is linked, and after a
\* rotation the previous path no longer resolves when path_template contains
\* %NNN%, while a template without %NNN% names the new file by the same path.
C21_OnlyMostRecentLinkedPerTemplate ==
    [][/\ ~filegen.rotate => filegen.linked \subseteq filegen'.linked
       /\ filegen.rotate => filegen'.linked \subseteq MostRecent
       /\ \A c \in 1..MaxDuplicates :
             filegen.rotate /\ Rotated(c) =>
                (PathOf(c) \notin filegen'.linked <=> filegen.placeholder)]_vars

\* a single rotating worker has left path 0 for path 1, the only one linked
C21_Witness ==
    /\ filegen.rotate
    /\ filegen.placeholder
    /\ filegen.duplicates = 1
    /\ filegen.file_index = 2
    /\ filegen.child[1].st = "loop"
    /\ filegen.child[1].file_index = 1
    /\ filegen.linked = {1}

\* the children that have taken an index from the shared counter
Indexed == {c \in 1..MaxDuplicates : filegen.child[c].st \notin {"none", "spawned"}}

\* C22: under any interleaving of the workers every open gets an index no other
\* open has received, so two workers never write to the same templated path.
C22_IndicesAndPathsUnique ==
    \A c \in Indexed :
        /\ filegen.child[c].file_index < filegen.file_index
        /\ \A d \in Indexed \ {c} :
              /\ filegen.child[c].file_index # filegen.child[d].file_index
              /\ PathOf(c) # PathOf(d)

\* C22, amended: under any interleaving of the workers every open gets an index
\* no other open has received; two workers never write to the same templated
\* path when path_template contains %NNN%.
C22_IndicesUniquePathsPerTemplate ==
    \A c \in Indexed :
        /\ filegen.child[c].file_index < filegen.file_index
        /\ \A d \in Indexed \ {c} :
              /\ filegen.child[c].file_index # filegen.child[d].file_index
              /\ filegen.placeholder => PathOf(c) # PathOf(d)

\* the second worker opened first, and the first has rotated since
C22_Witness ==
    /\ filegen.placeholder
    /\ filegen.child[2].st = "loop"
    /\ filegen.child[2].file_index = 0
    /\ filegen.child[1].st = "loop"
    /\ filegen.child[1].file_index = 2

\* C23: to_bytes writes at most max_bytes bytes to the writer, and the running
\* budget never goes negative.
C23_WritesAtMostMaxBytes ==
    \A i \in DOMAIN payload.run :
        /\ Len(payload.run[i].out) <= payload.max_bytes
        /\ payload.run[i].bytes_remaining \in 0..payload.max_bytes
        /\ payload.run[i].pc # "err" =>
              Len(payload.run[i].out) + payload.run[i].bytes_remaining
                 = payload.max_bytes

\* a call that spent its whole budget, on two records or more
C23_Witness ==
    /\ payload.max_bytes = MaxBytes
    /\ payload.run[1].pc = "ok"
    /\ payload.run[1].bytes_remaining = 0
    /\ Len(payload.run[1].out) = MaxBytes

\* the writer holds complete records only: nothing, or bytes ending in a newline
WholeRecords(out) == out = <<>> \/ out[Len(out)] = Newline

\* in this step call i either writes the whole line of a member that fits, or
\* drops a member that does not fit, writes nothing of it and returns
WritesOrDrops(i) ==
    LET r == payload.run[i]
        m == generate(r.rng).member
    IN  r # payload'.run[i] /\ payload'.run[i].pc # "err" =>
          IF line_length(m) <= r.bytes_remaining
            THEN /\ payload'.run[i].pc = "loop"
                 /\ payload'.run[i].out = r.out \o Encoding(m) \o <<Newline>>
            ELSE /\ payload'.run[i].pc = "ok"
                 /\ payload'.run[i].out = r.out

C26_BlockErrorIsLocal ==
    Happened("block_error") =>
        /\ mpc # "panicked"
        /\ \A id \in Spawned : tasks[id].st # "aborted"
        /\ exit_code \in {-1, 0, 1}
        /\ exit_code = 1 => (winner = "tsrv" /\ tsrv = "err")

\* C27: when peek or next yields no block because the channel was closed by
\* its producer, the generator's spin returns an error: it does not go on
\* sending, and it does not end in any other way.
C27_ClosedChannelReturnsError ==
    [][(gen.pc = "peek" /\ PeekReady(rcv) /\ PeekResult(rcv) = 0 /\ gen' # gen) =>
          (gen'.pc = "returned" /\ gen'.result = "Err")]_vars

\* the bytes of the block at a position of the pool, 0 for no block
BytesOf(b) == IF b = 0 THEN 0 ELSE pool[b]

\* the bytes the channel holds
RECURSIVE ChannelBytes(_)
ChannelBytes(chan) ==
    IF chan = <<>> THEN 0 ELSE BytesOf(Head(chan)) + ChannelBytes(Tail(chan))

\* the smallest total_byte_budget a Streaming cache accepts for the pool's
\* block sizes: the largest block times the channel's capacity
total_byte_budget ==
    ChannelCapacity * BytesOf(CHOOSE b \in DOMAIN pool :
                                 \A c \in DOMAIN pool : pool[c] <= pool[b])

\* C28: the bytes held between producer and consumer, in the channel and in
\* the peekable receiver's buffer, total at most total_byte_budget.
C28_BufferedWithinBudget ==
    ChannelBytes(rcv.chan) + BytesOf(rcv.buffer) <= total_byte_budget

\* C29: when both --capture-path and --prometheus-addr are given, the
\* telemetry of the configuration is the Log sink writing to capture-path.
C29_CapturePathWins ==
    (/\ cli.pc = "returned"
     /\ cli.ops.capture_path # "None"
     /\ cli.ops.prometheus_addr # "None") => cli.telemetry.variant = "Log"

\* C30: for every combination of the telemetry flags, the global labels of the
\* telemetry sink are the labels of the configuration file merged with those of
\* --global-labels, and no label of the file is lost.
C30_GlobalLabelsAreMerged ==
    cli.pc = "returned" =>
        /\ DOMAIN cli.file.global_labels \subseteq DOMAIN cli.telemetry.global_labels
        /\ cli.telemetry.global_labels
              = InsertAll(cli.file.global_labels, cli.ops.global_labels.inner)

\* the pieces of an argument between its commas that are not empty
Pairs(input) == SelectSeq(split(input, ","), LAMBDA kv : kv # <<>>)

\* a piece that is a single KEY=VAL pair has exactly one '='
SinglePair(kv) == Cardinality({i \in 1..Len(kv) : kv[i] = "="}) = 1

\* C31: parsing a key=value list fails whenever some non-empty piece between
\* commas is not a single KEY=VAL pair, and a failed parse produces no map.
C31_MalformedSegmentFails ==
    (/\ cli.pc = "parsed"
     /\ \E i \in DOMAIN Pairs(cli.val) : ~SinglePair(Pairs(cli.val)[i]))
        => (~cli.deser.ok /\ "inner" \notin DOMAIN cli.deser)

\* C32: the empty string parses to the empty map, empty pieces are skipped,
\* and a list with a trailing comma parses to the same map as the list
\* without it.
C32_EmptyPiecesAreSkipped ==
    cli.pc = "parsed" =>
        /\ cli.val = <<>> => cli.deser = [ok |-> TRUE, inner |-> <<>>]
        /\ cli.deser = from_str_loop(Pairs(cli.val), <<>>)
        /\ (cli.val # <<>> /\ cli.val[Len(cli.val)] = ",") =>
              cli.deser = from_str(SubSeq(cli.val, 1, Len(cli.val) - 1))

C32_Witness ==
    /\ cli.pc = "parsed"
    /\ Len(cli.val) > 3
    /\ cli.val[Len(cli.val)] = ","
    /\ cli.deser.ok
    /\ cli.deser.inner # <<>>

\* how often a piece occurs in a list of pieces
Occurrences(kvs, kv) == Cardinality({i \in DOMAIN kvs : kvs[i] = kv})

\* C33: parsing a key=value list and displaying the result preserves the
\* multiset of pairs: every pair of the input appears exactly once in the
\* output and nothing else does, and parsing the displayed form gives the
\* same map back.
C33_RoundTripPreservesPairs ==
    cli.pc = "reparsed" =>
        /\ \A i \in DOMAIN Pairs(cli.val) :
              Occurrences(Pairs(cli.string), Pairs(cli.val)[i]) = 1
        /\ \A i \in DOMAIN Pairs(cli.string) :
              Occurrences(Pairs(cli.val), Pairs(cli.string)[i]) = 1
        /\ cli.again = cli.deser

\* the whole of the three durations of the command line
RunBudget ==
    from_secs(config.warmup) + from_secs(config.experiment)
      + from_secs(config.max_shutdown_delay)

\* C34: with no target and no ctrl-c, a run terminates within warmup +
\* experiment + max_shutdown_delay seconds of its start, and exits 0.
C34_TerminatesWithinBudget ==
    /\ []((~config.target /\ ~ctrl_c) =>
            /\ now <= RunBudget
            /\ (exit_code # -1 => mpc = "done" /\ exit_code = 0))
    /\ <>(config.target \/ ctrl_c \/ mpc = "done")

C34_Witness ==
    /\ ~config.target
    /\ ~ctrl_c
    /\ config.warmup = 0 /\ config.experiment = 1 /\ config.max_shutdown_delay = 2
    /\ mpc = "done"
    /\ exit_code = 0
    /\ now = from_secs(3)
    /\ winner = "experiment_sleep"

\* a scrape fails: the request, or the parse of its answer
ScrapeFails ==
    /\ expvar.pc \in {"send", "json"}
    /\ expvar'.last \in {"send_err", "json_err"}
    /\ expvar'.result = expvar.result
    /\ expvar' # expvar

\* C35: a failed fetch or JSON parse sets no gauge and the scraper goes back
\* to its sleep to try again on the next tick; Expvar::run returns only when
\* shutdown was signalled, and then with Ok, never with EarlyShutdown.
C35_ScrapeFailureIsNotFatal ==
    /\ [][ScrapeFails => (expvar'.gauges = expvar.gauges /\ expvar'.pc = "sleep")]_vars
    /\ [](expvar.pc = "returned" => (fired /\ expvar.result = "Ok"))
    /\ [](expvar.result # "EarlyShutdown")

C35_Witness ==
    /\ expvar.pc = "returned"
    /\ expvar.result = "Ok"
    /\ expvar.last = "json_err"
    /\ expvar.gauges["/a"] = 1
    /\ expvar.gauges["/b"] = 0

\* C36: a worker rotates exactly when, after a write, the bytes it has
\* written to its current file are strictly more than maximum_bytes_per_file,
\* and the rotation resets that count to 0; so the count never exceeds
\* maximum_bytes_per_file by more than one block.
C36_RotatesPastMaximumOnly ==
    /\ [](\A c \in 1..MaxDuplicates :
            LET child == filegen.child[c]
            IN  /\ child.st = "loop" =>
                      child.total_bytes_written <= filegen.maximum_bytes_per_file
                /\ child.st = "rotate" =>
                      /\ child.total_bytes_written > filegen.maximum_bytes_per_file
                      /\ child.total_bytes_written
                            <= filegen.maximum_bytes_per_file + MaxBlockSize)
    /\ [][\A c \in 1..MaxDuplicates :
            /\ Rotated(c) => filegen'.child[c].total_bytes_written = 0
            /\ (/\ filegen.child[c].st = "loop"
                /\ filegen'.child[c].total_bytes_written
                      > filegen.maximum_bytes_per_file) =>
                   filegen'.child[c].st = "rotate"]_vars

C36_Witness ==
    \E c \in 1..MaxDuplicates :
        /\ filegen.child[c].st = "rotate"
        /\ filegen.maximum_bytes_per_file = MaxBurst
        /\ filegen.child[c].total_bytes_written = MaxBurst + MaxBlockSize
        /\ filegen.child[c].file_index > 1

\* C37: for every configured bytes_per_second, and maximum_bytes_per_file of
\* a file generator, the value handed to the throttle and published in the
\* bytes_per_second gauge is the configured one: the conversion to a 32-bit
\* integer neither changes it nor yields zero for a non-zero configuration.
C37_ConversionKeepsConfiguredValue ==
    (/\ gen.pc \in {"built", "panicked"}
     /\ gen.config.bytes_per_second # 0
     /\ gen.config.maximum_bytes_per_file # 0) =>
        /\ gen.pc = "built"
        /\ throttle.capacity_per_second = gen.config.bytes_per_second
        /\ gen.gauge = gen.config.bytes_per_second
        /\ kind = "file_gen" =>
              fp.maximum_bytes_per_file = gen.config.maximum_bytes_per_file

\* a step in which the request in flight completes
RequestCompletes == kind = "grpc" /\ gen.pc = "grpc_req" /\ gen'.pc # "grpc_req"

LeavesWriteLoop == kind = "unix_stream" /\ gen.pc = "uds_while" /\ gen'.pc # "uds_while"

\* C39: in the Unix-stream partial-write loop the stream option is Some at
\* the top of every iteration, so unix_stream.unwrap() never meets None; the
\* option is None when the loop is left only if a write error broke out of it.
C39_StreamIsSomeInWriteLoop ==
    /\ []((kind = "unix_stream" /\ gen.pc = "uds_while") => gen.connection)
    /\ [][(LeavesWriteLoop /\ gen'.pc # "panicked" /\ ~gen'.connection) =>
            metrics'.request_failure = metrics.request_failure + 1]_vars
    /\ [][(LeavesWriteLoop /\ gen'.pc = "panicked") => gen.connection]_vars

C39_Witness ==
    /\ kind = "unix_stream"
    /\ gen.pc = "uds_while"
    /\ gen.connection
    /\ gen.blk_offset > 0
    /\ gen.blk_offset < gen.blk_max
    /\ metrics.request_failure = 1

\* C40: FileGen::spin does not return before shutdown is signalled, even when
\* every child has already failed; after the signal it waits for all of the
\* children and returns the error of the first child, in spawn order, that
\* failed, or Ok when none did.
C40_SpinWaitsForSignalAndChildren ==
    /\ filegen.spin.pc \in {"join", "returned"} => fired
    /\ filegen.spin.pc = "returned" =>
          /\ \A c \in Handles : Joined(c)
          /\ \A c \in Handles :
                filegen.spin.result = c <=>
                   /\ filegen.child[c].st = "failed"
                   /\ \A b \in 1..(c - 1) : filegen.child[b].st = "returned"
          /\ filegen.spin.result = 0 <=>
                \A c \in Handles : filegen.child[c].st = "returned"

\* every child has failed and spin still waits for the signal
AllFailedBeforeSignal ==
    /\ filegen.duplicates = MaxDuplicates
    /\ \A c \in Handles : filegen.child[c].st = "failed"
    /\ ~fired
    /\ filegen.spin.pc = "recv"

\* spin returned the error of the second child, after the first returned Ok
C40_Witness ==
    /\ filegen.spin.pc = "returned"
    /\ filegen.spin.result = 2
    /\ filegen.child[1].st = "returned"
====
